---- MODULE Spec2Model ----
(***************************************************************************)
(* A model of the plan/execute pipeline of Playwright-MCP:                 *)
(*   - the action plan generator   (ai_agent.py, plan_actions_via_llm_mcp) *)
(*   - the plan executor           (ai_agent.py, execute_steps)            *)
(*   - the page context builder and its bridge session                     *)
(*                                 (ai_agent.py, build_page_context;       *)
(*                                  mcp_client.py, PlaywrightMCP)          *)
(*   - tool-name resolution        (mcp_client.py, _match_tool)            *)
(*   - the tool server             (mcp_server.py)                         *)
(* Each component has its own specification (SpecPlan, SpecExec, SpecCtx,  *)
(* SpecMatch, SpecServer) over its own variables; the variables of the     *)
(* other components rest.                                                  *)
(***************************************************************************)
EXTENDS Integers, Sequences, FiniteSets, TLC

VARIABLES
    \* ---- plan generator -------------------------------------------------
    p_pc,        \* "start" | "loop" | "final" | "done"
    p_goal,      \* the goal text handed to plan_actions_via_llm_mcp
    p_mid,       \* index into MODEL_CANDIDATES of the next identifier to try
    p_trace,     \* what each consulted identifier's response came to, in order
    p_text,      \* the response text of the identifier that was accepted
    p_tried,     \* result of _try_gemini_plan: None or [plan, meta]
    p_plan,      \* the plan returned
    p_meta,      \* the meta returned
    \* ---- plan executor --------------------------------------------------
    e_steps,     \* the plan handed to execute_steps
    e_i,         \* position in the plan of the next step of the for loop
    e_status,    \* "running" | "returned" | "raised"
    e_exc,       \* the exception that left execute_steps, "none" if none
    e_result,    \* result["extracted"]: None or [text, href]
    e_log,       \* one entry per loop pass, in order
    \* ---- page context builder: the caller of build_page_context ----------
    c_pc,        \* "start" | "join" | "get" | "local" | "returned" | "raised"
    c_cmd,       \* MCP_PLAYWRIGHT_CMD: "unset", "" or the launch command
    c_ctx,       \* the context returned, None before
    c_local,     \* the local probes run so far, in order
    \* ---- the worker thread of _run_anyio_in_thread and its session -------
    w_pc,        \* where the worker is; "none" before the thread is started
    w_exc,       \* the exception unwinding in the worker, "none" if none
    w_res,       \* what _run returns: None or the normalized context
    q,           \* the handoff queue
    s_transport, \* the stdio transport: "none" | "open" | "released"
    s_tools,     \* PlaywrightMCP._tools: the discovered tool names, in order
    s_nav,       \* how client.navigate(url) ended, "none" before
    s_nav_ans,   \* <<a>> once the tool call of navigate ended with answer a
    s_snap,      \* what the snapshot tool call gave get_page_context
    s_calls,     \* the requests of the session, in order
    \* ---- tool-name resolution -------------------------------------------
    t_pc,        \* "start" | "done"
    t_names,     \* the discovered tool names, in discovery order
    t_cands,     \* the candidate list handed to _match_tool
    t_res,       \* what _match_tool returned
    \* ---- the tool server (mcp_server.py) --------------------------------
    g_playwright,\* number of Playwright instances started so far
    g_launched,  \* number of browsers launched so far
    g_browser,   \* PlaywrightMCPServer.browser: "none" | "set"
    g_page,      \* PlaywrightMCPServer.page: "none" | "set"
    g_calls,     \* number of tool calls the server has taken up
    g_sent,      \* number of answers call_tool has returned
    g_reply,     \* the answer returned last, None before the first
    g_crashed,   \* an exception left call_tool
    g_task,      \* the call each handler task is in: its position and data
    \* ---- schema validation (ai_agent.py, _validator) --------------------
    v_pc,        \* "idle" | "ready" | "done"
    v_doc,       \* the JSON document handed to the validator
    v_ok,        \* "none" | "accepted" | "rejected" (ValidationError)
    \* ---- run_goal (agent_cli.py) ----------------------------------------
    r_pc,        \* the statement run_goal is at
    r_browser,   \* the browser of the run: "none" | "open" | "closed"
    r_plan,      \* steps: the action kinds of the plan, in order
    r_i,         \* the position in the plan of the next pass of the step loop
    r_hit,       \* first_hit: NoHit or the item the plan's extract gave
    r_results,   \* results: the items collected, in order
    r_log,       \* the steps handed to execute_steps and the scrape, in order
    r_failed,    \* the stages in which an exception was raised
    r_exit,      \* "none" | "returned" | "raised"
    \* ---- keyword extraction (agent_cli.py, _extract_search_text) --------
    k_pc,        \* "idle" | "ready" | "done"
    k_goal,      \* the goal text, as segments: words and quoted phrases
    k_units,     \* the list "deduped" that is joined: words and phrases
    k_out,       \* the string returned, as its words
    \* ---- one pass of the loop of _try_gemini_plan on one response -------
    j_pc,        \* "idle" | "ready" | "done"
    j_text,      \* the text of the response
    j_out        \* what the pass came to: the plan returned, or why it went on

pvars == <<p_pc, p_goal, p_mid, p_trace, p_text, p_tried, p_plan, p_meta>>
evars == <<e_steps, e_i, e_status, e_exc, e_result, e_log>>
cvars == <<c_pc, c_cmd, c_ctx, c_local>>
wvars == <<w_pc, w_exc, w_res, q>>
svars == <<s_transport, s_tools, s_nav, s_nav_ans, s_snap, s_calls>>
bvars == <<cvars, wvars, svars>>
tvars == <<t_pc, t_names, t_cands, t_res>>
gvars == <<g_playwright, g_launched, g_browser, g_page, g_calls, g_sent, g_reply, g_crashed, g_task>>
vvars == <<v_pc, v_doc, v_ok>>
rvars == <<r_pc, r_browser, r_plan, r_i, r_hit, r_results, r_log, r_failed, r_exit>>
kvars == <<k_pc, k_goal, k_units, k_out>>
jvars == <<j_pc, j_text, j_out>>
nvars == <<vvars, rvars, kvars, jvars>>
ovars == <<tvars, gvars, nvars>>

vars == <<pvars, evars, bvars, ovars>>

None == [t |-> "null"]

(***************************************************************************)
(* JSON values.  A scalar or a field of an object is [t, v]: its JSON type *)
(* and its text.  A plan step is an object with the fields the schema      *)
(* knows, plus one field ("extra") the schema does not know; a field that  *)
(* is not present is Absent.                                               *)
(***************************************************************************)
Absent == [t |-> "absent", v |-> ""]
Str(s) == [t |-> "string", v |-> s]
Num(s) == [t |-> "number", v |-> s]

StepFields ==
    {"action", "url", "selector", "role", "name", "value", "assert",
     "timeout_ms", "extra"}

NoFields == [f \in StepFields |-> Absent]

\* An object holding the given fields (a function from some field names).
Obj(fs) == [t |-> "object", f |-> [k \in StepFields |-> IF k \in DOMAIN fs THEN fs[k] ELSE Absent]]
\* A JSON value that is not an object (a nested array).
NonObj(ty) == [t |-> ty, f |-> NoFields]

\* dict.get(key): the field's text, or None when the key is absent.
Get(step, key) == IF step.f[key].t = "absent" THEN None ELSE step.f[key]

(***************************************************************************)
(* ACTION_SCHEMA (Draft 7): an array of objects, each with a required      *)
(* "action" string out of the enumeration; the known fields are typed;     *)
(* fields the schema does not name are allowed.                            *)
(***************************************************************************)
ActionEnum ==
    {"goto", "fill", "click", "press", "wait_for", "extract", "assert_text",
     "select_option", "scroll", "sleep"}

StringProps == {"url", "selector", "role", "name", "value", "assert"}

\* The schema with "additionalProperties": false on the items.
ItemValid_NoExtraFields(it) ==
    /\ it.t = "object"
    /\ it.f["action"].t = "string"
    /\ it.f["action"].v \in ActionEnum
    /\ \A k \in StringProps : it.f[k].t \in {"absent", "string"}
    /\ it.f["timeout_ms"].t \in {"absent", "number"}
    /\ it.f["extra"].t = "absent"

\* One item of the array against "items" of ACTION_SCHEMA.
ItemValid(it) ==
    /\ it.t = "object"
    /\ it.f["action"].t = "string"
    /\ it.f["action"].v \in ActionEnum
    /\ \A k \in StringProps : it.f[k].t \in {"absent", "string"}
    /\ it.f["timeout_ms"].t \in {"absent", "number"}

\* _validator.validate(plan) / validate(instance=plan, schema=ACTION_SCHEMA):
\* TRUE when no ValidationError is raised.  A plan is a sequence of items.
Validate(plan) == \A i \in 1..Len(plan) : ItemValid(plan[i])

\* any(step.get("action") == "extract" for step in plan)
HasExtract(plan) ==
    \E i \in 1..Len(plan) : Get(plan[i], "action") = Str("extract")

(***************************************************************************)
(* The text of a model response, as a sequence of tokens: the two array    *)
(* brackets, whitespace, prose (any text that is not JSON), and JSON       *)
(* values that may stand as array items.  The commas between the items of  *)
(* an array are not represented.                                           *)
(***************************************************************************)
ItemTokens == {"extract", "wait_for", "hover"}
Tokens == {"[", "]", "ws", "prose"} \cup ItemTokens

SearchInput == "input.react-autosuggest__input[placeholder='Search for Data']"
ResultLinks == "a[href*='/d/']"

\* The JSON value an item token stands for.
ItemOf(tok) ==
    CASE tok = "extract"  -> Obj([action |-> Str("extract"), selector |-> Str(ResultLinks)])
      [] tok = "wait_for" -> Obj([action |-> Str("wait_for"), selector |-> Str(SearchInput),
                                  timeout_ms |-> Num("7000")])
      [] OTHER            -> Obj([action |-> Str("hover"), selector |-> Str(ResultLinks)])

MaxTextLen == 4

RECURSIVE SeqsUpTo(_, _)
SeqsUpTo(S, n) ==
    IF n = 0 THEN {<<>>}
    ELSE LET shorter == SeqsUpTo(S, n - 1)
         IN  shorter \cup {Append(s, x) : s \in {sq \in shorter : Len(sq) = n - 1}, x \in S}

Texts == SeqsUpTo(Tokens, MaxTextLen)

\* str.strip(): leading and trailing whitespace removed.
RECURSIVE LStrip(_)
LStrip(txt) ==
    IF txt # <<>> /\ Head(txt) = "ws" THEN LStrip(Tail(txt)) ELSE txt
RECURSIVE RStrip(_)
RStrip(txt) ==
    IF txt # <<>> /\ txt[Len(txt)] = "ws" THEN RStrip(SubSeq(txt, 1, Len(txt) - 1)) ELSE txt
Strip(txt) == RStrip(LStrip(txt))

\* The character ch ("[" or "]") occurs in the text of token tok: it is the
\* bracket itself, or tok is an item, whose selector holds both brackets.
HasChar(tok, ch) == tok = ch \/ tok \in ItemTokens

\* str.find / str.rfind of a bracket character: the 1-based position of the
\* token in which it is found, 0 for Python's -1.
Find(txt, ch) ==
    IF \E i \in 1..Len(txt) : HasChar(txt[i], ch)
    THEN CHOOSE i \in 1..Len(txt) :
           HasChar(txt[i], ch) /\ \A j \in 1..(i - 1) : ~HasChar(txt[j], ch)
    ELSE 0
RFind(txt, ch) ==
    IF \E i \in 1..Len(txt) : HasChar(txt[i], ch)
    THEN CHOOSE i \in 1..Len(txt) :
           HasChar(txt[i], ch) /\ \A j \in (i + 1)..Len(txt) : ~HasChar(txt[j], ch)
    ELSE 0

\* What is left of an item that text[s:e + 1] cuts at a bracket of its
\* selector; it is no JSON value.
Part == "part"

\* text[s:e + 1] for s and e found by Find and RFind: an item at either end
\* is cut inside its selector; the empty text when e < s.
Slice(txt, s, e) ==
    IF e < s THEN <<>>
    ELSE [i \in 1..(e - s + 1) |->
            IF (i = 1 \/ i = e - s + 1) /\ txt[s + i - 1] \in ItemTokens
            THEN Part ELSE txt[s + i - 1]]

(***************************************************************************)
(* json.loads on a token sequence.  ParseElems reads array items from      *)
(* position i up to the bracket that closes the array: [ok, next, items],  *)
(* next being the position after that bracket.  Whitespace is skipped,     *)
(* prose is a syntax error, a nested array is an item that is no object.   *)
(***************************************************************************)
ParseFail == [ok |-> FALSE, next |-> 0, items |-> <<>>]

RECURSIVE ParseElems(_, _)
ParseElems(txt, i) ==
    IF i > Len(txt) THEN ParseFail
    ELSE IF txt[i] = "]" THEN [ok |-> TRUE, next |-> i + 1, items |-> <<>>]
    ELSE IF txt[i] = "ws" THEN ParseElems(txt, i + 1)
    ELSE IF txt[i] \in {"prose", Part} THEN ParseFail
    ELSE IF txt[i] = "["
         THEN LET inner == ParseElems(txt, i + 1)
              IN  IF ~inner.ok THEN ParseFail
                  ELSE LET rest == ParseElems(txt, inner.next)
                       IN  IF ~rest.ok THEN ParseFail
                           ELSE [rest EXCEPT !.items = <<NonObj("array")>> \o @]
    ELSE LET rest == ParseElems(txt, i + 1)
         IN  IF ~rest.ok THEN ParseFail
             ELSE [rest EXCEPT !.items = <<ItemOf(txt[i])>> \o @]

\* Only whitespace from position i on.
OnlyWs(txt, i) == \A j \in i..Len(txt) : txt[j] = "ws"

\* json.loads(text) for a text that starts with "[": [ok, items]; ok = FALSE
\* stands for the JSONDecodeError.
json_loads(txt) ==
    IF txt = <<>> \/ txt[1] # "[" THEN [ok |-> FALSE, items |-> <<>>]
    ELSE LET r == ParseElems(txt, 2)
         IN  IF r.ok /\ OnlyWs(txt, r.next)
             THEN [ok |-> TRUE, items |-> r.items]
             ELSE [ok |-> FALSE, items |-> <<>>]

(***************************************************************************)
(* The plan generator.                                                     *)
(***************************************************************************)
\* The identifiers with the largest model first.
MODEL_CANDIDATES_ProFirst ==
    <<"models/gemini-2.5-pro", "models/gemini-2.5-flash", "models/gemini-2.5-flash-lite">>

MODEL_CANDIDATES ==
    <<"models/gemini-2.5-flash", "models/gemini-2.5-flash-lite", "models/gemini-2.5-pro">>

Goals == {"crime", "parks"}

\* What the backend does for one identifier: GenerativeModel/generate_content
\* raise, or a response with a text (None and "" are both the empty text).
Responses == {[exc |-> TRUE, text |-> <<>>]} \cup {[exc |-> FALSE, text |-> t] : t \in Texts}

\* A pass of the loop body of _try_gemini_plan that goes on to the next
\* identifier, and one that returns the plan.
Rejected(why) == [accepted |-> FALSE, why |-> why, plan |-> <<>>]
Accepted(plan) == [accepted |-> TRUE, why |-> "accepted", plan |-> plan]

\* The text handed to json.loads: the text itself when it starts with "[",
\* else cut to the first "[" .. the last "]".
Coerce(text) ==
    IF text[1] = "[" THEN text
    ELSE Slice(text, Find(text, "["), RFind(text, "]"))

\* CheckPlan without the extract requirement.
CheckPlan_SkipsExtract(plan) ==
    IF ~Validate(plan) THEN Rejected("schema") ELSE Accepted(plan)

\* The checks on the parsed plan: schema, then the extract requirement.
CheckPlan(plan) ==
    IF ~Validate(plan) THEN Rejected("schema")
    ELSE IF ~HasExtract(plan) THEN Rejected("no_extract")
    ELSE Accepted(plan)

\* The body of the loop over MODEL_CANDIDATES for one response.
TryModelOutcome(r) ==
    IF r.exc THEN Rejected("exception")
    ELSE LET text == Strip(r.text) IN
         IF text = <<>> THEN Rejected("empty")
         ELSE IF text[1] # "[" /\ (Find(text, "[") = 0 \/ RFind(text, "]") = 0)
              THEN Rejected("no_brackets")
         ELSE LET parsed == json_loads(Coerce(text)) IN
              IF ~parsed.ok THEN Rejected("bad_json")
              ELSE CheckPlan(parsed.items)

\* The reasons that are an exception raised inside the try of the loop body:
\* the backend call, json.loads and the validator.
Raising == {"exception", "bad_json", "schema"}

\* Caught when only the decode error of json.loads is handled.
Caught_OnlyDecodeError(why) == why = "bad_json"

\* "except Exception" around the loop body: every exception of the body is
\* caught and the loop goes on.
Caught(why) == why \in Raising

\* The fallback plan without its press step.
_fallback_plan_NoPress(goal) ==
    << Obj([action |-> Str("wait_for"), selector |-> Str("input[placeholder*='Search' i]"),
            timeout_ms |-> Num("7000")]),
       Obj([action |-> Str("fill"), selector |-> Str("input[placeholder*='Search' i]"),
            value |-> Str(goal)]),
       Obj([action |-> Str("wait_for"), selector |-> Str(ResultLinks),
            timeout_ms |-> Num("15000")]),
       Obj([action |-> Str("extract"), selector |-> Str(ResultLinks)]) >>

_fallback_plan(goal) ==
    << Obj([action |-> Str("wait_for"), selector |-> Str("input[placeholder*='Search' i]"),
            timeout_ms |-> Num("7000")]),
       Obj([action |-> Str("fill"), selector |-> Str("input[placeholder*='Search' i]"),
            value |-> Str(goal)]),
       Obj([action |-> Str("press"), selector |-> Str("input[placeholder*='Search' i]"),
            value |-> Str("Enter")]),
       Obj([action |-> Str("wait_for"), selector |-> Str(ResultLinks),
            timeout_ms |-> Num("15000")]),
       Obj([action |-> Str("extract"), selector |-> Str(ResultLinks)]) >>

FallbackMeta == [source |-> "fallback", model |-> "null"]

PlanInit ==
    /\ p_pc = "start"
    /\ p_goal \in Goals
    /\ p_mid = 1
    /\ p_trace = <<>>
    /\ p_text = <<>>
    /\ p_tried = None
    /\ p_plan = <<>>
    /\ p_meta = None

PlanIdle ==
    /\ p_pc = "idle" /\ p_goal = "" /\ p_mid = 1 /\ p_trace = <<>> /\ p_text = <<>>
    /\ p_tried = None /\ p_plan = <<>> /\ p_meta = None

\* _try_gemini_plan up to its loop: no API key, or the import/configure of
\* the backend fails, and the result is None; else the loop starts.
GeminiSetup ==
    /\ p_pc = "start"
    /\ \E env \in {"no_key", "configure_fails", "ready"} :
          p_pc' = IF env = "ready" THEN "loop" ELSE "final"
    /\ UNCHANGED <<p_goal, p_mid, p_trace, p_text, p_tried, p_plan, p_meta>>
    /\ UNCHANGED <<evars, bvars, ovars>>

\* One pass of the loop: the identifier p_mid is consulted.
TryModel ==
    /\ p_pc = "loop"
    /\ \E r \in Responses :
         LET out == TryModelOutcome(r) IN
         /\ p_trace' = Append(p_trace, out.why)
         /\ IF out.accepted
            THEN /\ p_tried' = [t |-> "pair", plan |-> out.plan,
                                meta |-> [source |-> "gemini", model |-> MODEL_CANDIDATES[p_mid]]]
                 /\ p_text' = r.text
                 /\ p_pc' = "final"
                 /\ p_mid' = p_mid
            ELSE /\ p_tried' = p_tried
                 /\ p_text' = p_text
                 /\ IF out.why \in Raising /\ ~Caught(out.why)
                    THEN p_mid' = p_mid /\ p_pc' = "raised"
                    ELSE /\ p_mid' = p_mid + 1
                         /\ p_pc' = IF p_mid = Len(MODEL_CANDIDATES) THEN "final" ELSE "loop"
    /\ UNCHANGED <<p_goal, p_plan, p_meta>>
    /\ UNCHANGED <<evars, bvars, ovars>>

\* plan_actions_via_llm_mcp after _try_gemini_plan: the generated plan or the
\* fallback, then the final schema check, which substitutes the fallback.
PlanReturn ==
    /\ p_pc = "final"
    /\ LET chosen == IF p_tried # None
                     THEN [plan |-> p_tried.plan, meta |-> p_tried.meta]
                     ELSE [plan |-> _fallback_plan(p_goal), meta |-> FallbackMeta]
       IN  IF Validate(chosen.plan)
           THEN p_plan' = chosen.plan /\ p_meta' = chosen.meta
           ELSE p_plan' = _fallback_plan(p_goal) /\ p_meta' = FallbackMeta
    /\ p_pc' = "done"
    /\ UNCHANGED <<p_goal, p_mid, p_trace, p_text, p_tried>>
    /\ UNCHANGED <<evars, bvars, ovars>>

PlanNext == GeminiSetup \/ TryModel \/ PlanReturn

(***************************************************************************)
(* The plan executor.                                                      *)
(***************************************************************************)
\* Python truthiness of a dict.get result: None and "" are falsy.
Truthy(x) == x # None /\ x.v # ""

\* _loc: the addressing mode of a step; "none" is the RuntimeError.
Loc(step) ==
    IF Truthy(Get(step, "role")) /\ Truthy(Get(step, "name")) THEN "role"
    ELSE IF Truthy(Get(step, "selector")) THEN "selector"
    ELSE "none"

\* Every handler decorated with stop_after_attempt(3).
MaxAttempts_AllThree(action) == 3

\* The @retry decorators: stop_after_attempt(n); a handler without one is
\* called once.
MaxAttempts(action) ==
    CASE action = "wait_for" -> 3
      [] action = "fill"     -> 2
      [] action = "click"    -> 2
      [] OTHER               -> 1

Retried == {"wait_for", "fill", "click"}

\* ACTION_MAP
Mapped == {"goto", "fill", "click", "press", "wait_for", "scroll", "sleep", "assert_text"}

\* What the driver may answer to the one driver call of a handler.
DriverAnswers(action) ==
    CASE action \in {"scroll", "sleep"} -> {"ok", "error"}
      [] action = "assert_text"          -> {"ok", "mismatch", "timeout", "error"}
      [] OTHER                           -> {"ok", "timeout", "error"}

\* One call of the undecorated handler _do_<action>, the driver answering d:
\* "ok", or the exception raised.
HandlerCall(step, d) ==
    LET action == step.f["action"].v IN
    CASE action = "goto" ->
            IF ~Truthy(Get(step, "url")) THEN "Exception"
            ELSE IF d = "timeout" THEN "PWTimeout"
            ELSE IF d = "error" THEN "Exception" ELSE "ok"
      [] action = "scroll" -> IF d = "error" THEN "Exception" ELSE "ok"
      [] action = "sleep" ->
            IF Get(step, "timeout_ms") = Num("-1") THEN "Exception" ELSE "ok"
      [] OTHER ->
            IF Loc(step) = "none" THEN "Exception"
            ELSE IF d = "timeout" THEN "PWTimeout"
            ELSE IF d \in {"error", "mismatch"} THEN "Exception" ELSE "ok"

\* The first attempt that succeeds, 0 if none does.
FirstOk(step, ds) ==
    IF \E k \in 1..Len(ds) : HandlerCall(step, ds[k]) = "ok"
    THEN CHOOSE k \in 1..Len(ds) :
            /\ HandlerCall(step, ds[k]) = "ok"
            /\ \A j \in 1..(k - 1) : HandlerCall(step, ds[j]) # "ok"
    ELSE 0

\* tenacity's Retrying with the defaults the decorators leave (reraise is
\* False): when the attempts are used up a RetryError is raised, whatever
\* the attempts raised.
RetryExhausted(last) == "RetryError"

\* fn(page, step) for a mapped action, ds being the driver's answers to the
\* successive attempts: the attempts made, how many of them raised a
\* timeout, and what the call raised ("none" when it returned).
Call(step, ds) ==
    LET action == step.f["action"].v
        k == FirstOk(step, ds)
        n == IF k = 0 THEN Len(ds) ELSE k
        timeouts == Cardinality({j \in 1..n : HandlerCall(step, ds[j]) = "PWTimeout"})
    IN  [attempts |-> n,
         timeouts |-> timeouts,
         raised |-> IF k # 0 THEN "none"
                    ELSE IF action \in Retried THEN RetryExhausted(HandlerCall(step, ds[n]))
                    ELSE HandlerCall(step, ds[n])]

\* Propagates without the "except Exception: pass" clause.
Propagates_AnyError(raised) == raised # "none"

\* The try/except around fn(page, step): a PWTimeout is raised again, any
\* other exception is passed over.
Propagates(raised) == raised = "PWTimeout"

\* An href as the fragments of its text: <<>> is "", the first fragment of
\* an absolute URL is its scheme.
BaseUrl == <<"https:", "//data.lacity.org">>
Hrefs == {<<>>, <<"/d/abc">>, <<"https:", "//data.lacity.org", "/d/abc">>, <<"http:", "//other.org">>}
StartsWithHttp(h) == h # <<>> /\ h[1] \in {"http:", "https:"}

\* What get_attribute("href") may do: an href, None, or an exception.
HrefAnswers == {[kind |-> "value", href |-> h] : h \in Hrefs}
                 \cup {[kind |-> "none", href |-> <<>>], [kind |-> "raises", href |-> <<>>]}

NoHref == [t |-> "null", v |-> <<>>]
HrefVal(h) == [t |-> "string", v |-> h]

\* The base put in front of every href that was read.
ExtractHref_AlwaysPrefix(a) ==
    IF a.kind # "value" THEN NoHref
    ELSE IF a.href # <<>> THEN HrefVal(BaseUrl \o a.href)
    ELSE HrefVal(a.href)

\* _do_extract once the text has been read: the href read and made absolute.
ExtractHref(a) ==
    IF a.kind # "value" THEN NoHref
    ELSE IF a.href # <<>> /\ ~StartsWithHttp(a.href) THEN HrefVal(BaseUrl \o a.href)
    ELSE HrefVal(a.href)

\* An extract that gives None when the target has no href.
DoExtract_NoneWithoutHref(step, d, a) ==
    IF Loc(step) = "none" THEN [raised |-> "Exception", value |-> None]
    ELSE IF d = "timeout" THEN [raised |-> "PWTimeout", value |-> None]
    ELSE IF d = "error" THEN [raised |-> "Exception", value |-> None]
    ELSE IF a.kind # "value" THEN [raised |-> "none", value |-> None]
    ELSE [raised |-> "none", value |-> [t |-> "capture", text |-> "Crime Data", href |-> ExtractHref(a)]]

\* _do_extract: "ok" with the capture, or the exception raised.
DoExtract(step, d, a) ==
    IF Loc(step) = "none" THEN [raised |-> "Exception", value |-> None]
    ELSE IF d = "timeout" THEN [raised |-> "PWTimeout", value |-> None]
    ELSE IF d = "error" THEN [raised |-> "Exception", value |-> None]
    ELSE [raised |-> "none", value |-> [t |-> "capture", text |-> "Crime Data", href |-> ExtractHref(a)]]

\* The steps plans are made of.
Sel == Str(ResultLinks)
ExecSteps ==
    { Obj([action |-> Str("goto"), url |-> Str("https://data.lacity.org")]),
      Obj([action |-> Str("fill"), selector |-> Sel, value |-> Str("crime")]),
      Obj([action |-> Str("click"), selector |-> Sel]),
      Obj([action |-> Str("click")]),
      Obj([action |-> Str("press"), role |-> Str("textbox"), name |-> Str("Search")]),
      Obj([action |-> Str("wait_for"), selector |-> Sel, timeout_ms |-> Num("7000")]),
      Obj([action |-> Str("extract"), selector |-> Sel]),
      Obj([action |-> Str("assert_text"), selector |-> Sel, assert |-> Str("Crime")]),
      Obj([action |-> Str("select_option"), selector |-> Sel]),
      Obj([action |-> Str("scroll")]),
      Obj([action |-> Str("sleep"), timeout_ms |-> Num("-1")]),
      Obj([action |-> Str("hover"), selector |-> Sel]),
      Obj([selector |-> Sel]) }

MaxPlanLen == 2

Plans == SeqsUpTo(ExecSteps, MaxPlanLen)

ExecInit ==
    /\ e_steps \in Plans
    /\ e_i = 1
    /\ e_status = "running"
    /\ e_exc = "none"
    /\ e_result = None
    /\ e_log = <<>>

ExecIdle ==
    /\ e_steps = <<>> /\ e_i = 1 /\ e_status = "idle" /\ e_exc = "none"
    /\ e_result = None /\ e_log = <<>>

ActionOf(step) == IF Truthy(Get(step, "action")) THEN step.f["action"].v ELSE "null"

Entry(action, attempts, timeouts, raised, settle, disp) ==
    [idx |-> e_i, action |-> action, attempts |-> attempts, timeouts |-> timeouts,
     raised |-> raised, settle |-> settle, disp |-> disp]

\* The entry of an extract that returned, with what get_attribute("href")
\* answered.
Extracted(en, a) ==
    [idx |-> en.idx, action |-> en.action, attempts |-> en.attempts, timeouts |-> en.timeouts,
     raised |-> en.raised, settle |-> en.settle, disp |-> en.disp, read |-> a]

InLoop == e_status = "running" /\ e_i <= Len(e_steps)

\* A loop that passes over the step after the one it has handled.
Advance_SkipsOne(i) == i + 2

\* "for step in steps": the position of the next pass of the loop.
Advance(i) == i + 1

\* The wait for the load state only after a goto or click that succeeded.
Waits_OnlyAfterSuccess(action, raised) == action \in {"goto", "click"} /\ raised = "none"

\* Whether the wait for the load state follows fn(page, step), which ended
\* with raised and did not propagate: after every goto and click.
Waits(action, raised) == action \in {"goto", "click"}

\* A step without a handler looked up as ACTION_MAP[action]: a KeyError.
SkipStep_KeyError ==
    /\ e_status = "running" /\ e_i <= Len(e_steps)
    /\ LET action == ActionOf(e_steps[e_i]) IN
       /\ action # "extract"
       /\ action \notin Mapped
       /\ e_log' = Append(e_log, [idx |-> e_i, action |-> action, attempts |-> 0,
                                  timeouts |-> 0, raised |-> "Exception",
                                  settle |-> "none", disp |-> "raised"])
    /\ e_status' = "raised"
    /\ e_exc' = "Exception"
    /\ UNCHANGED <<e_steps, e_i, e_result>>
    /\ UNCHANGED <<pvars, bvars, ovars>>

\* A step with no action, or with an action ACTION_MAP does not hold: continue.
SkipStep ==
    /\ InLoop
    /\ LET action == ActionOf(e_steps[e_i]) IN
       /\ action # "extract"
       /\ action \notin Mapped
       /\ e_log' = Append(e_log, Entry(action, 0, 0, "none", "none", "skipped"))
    /\ e_i' = Advance(e_i)
    /\ UNCHANGED <<e_steps, e_status, e_exc, e_result>>
    /\ UNCHANGED <<pvars, bvars, ovars>>

\* An extract step: result["extracted"] = _do_extract(page, step), outside
\* any try.
ExtractStep ==
    /\ InLoop
    /\ ActionOf(e_steps[e_i]) = "extract"
    /\ \E d \in DriverAnswers("extract"), a \in HrefAnswers :
         LET r == DoExtract(e_steps[e_i], d, a) IN
         IF r.raised = "none"
         THEN /\ e_result' = r.value
              /\ e_i' = Advance(e_i)
              /\ e_log' = Append(e_log, Extracted(Entry("extract", 1, 0, "none", "none", "extracted"), a))
              /\ UNCHANGED <<e_status, e_exc>>
         ELSE /\ e_status' = "raised"
              /\ e_exc' = r.raised
              /\ e_log' = Append(e_log, Entry("extract", 1, IF r.raised = "PWTimeout" THEN 1 ELSE 0,
                                              r.raised, "none", "raised"))
              /\ UNCHANGED <<e_i, e_result>>
    /\ UNCHANGED e_steps
    /\ UNCHANGED <<pvars, bvars, ovars>>

\* What page.wait_for_load_state may do: return, time out, or raise another
\* exception.
SettleAnswers == {"ok", "timeout", "error"}

\* The try/except around the wait for the load state: only a PWTimeout is
\* passed over.
SettleRaises(settle) == settle = "error"

\* A step of a mapped action: fn(page, step) under the try/except, then the
\* wait for the load state after a goto or a click.
DispatchStep ==
    /\ InLoop
    /\ LET step == e_steps[e_i]
           action == ActionOf(step)
       IN
       /\ action \in Mapped
       /\ \E ds \in [1..MaxAttempts(action) -> DriverAnswers(action)],
             settle \in SettleAnswers :
            LET c == Call(step, ds)
                waits == Waits(action, c.raised)
            IN
            IF Propagates(c.raised)
            THEN /\ e_status' = "raised"
                 /\ e_exc' = c.raised
                 /\ e_log' = Append(e_log, Entry(action, c.attempts, c.timeouts, c.raised,
                                                 "none", "raised"))
                 /\ UNCHANGED e_i
            ELSE IF waits /\ SettleRaises(settle)
            THEN /\ e_status' = "raised"
                 /\ e_exc' = "Exception"
                 /\ e_log' = Append(e_log, Entry(action, c.attempts, c.timeouts, c.raised,
                                                 settle,
                                                 IF c.raised = "none" THEN "ok" ELSE "soft"))
                 /\ UNCHANGED e_i
            ELSE /\ e_i' = Advance(e_i)
                 /\ e_log' = Append(e_log, Entry(action, c.attempts, c.timeouts, c.raised,
                                                 IF waits THEN settle ELSE "none",
                                                 IF c.raised = "none" THEN "ok" ELSE "soft"))
                 /\ UNCHANGED <<e_status, e_exc>>
    /\ UNCHANGED <<e_steps, e_result>>
    /\ UNCHANGED <<pvars, bvars, ovars>>

\* The loop is over: return result.
ExecReturn ==
    /\ e_status = "running"
    /\ e_i > Len(e_steps)
    /\ e_status' = "returned"
    /\ UNCHANGED <<e_steps, e_i, e_exc, e_result, e_log>>
    /\ UNCHANGED <<pvars, bvars, ovars>>

ExecNext == SkipStep \/ ExtractStep \/ DispatchStep \/ ExecReturn

(***************************************************************************)
(* The MCP bridge client (mcp_client.py).                                  *)
(***************************************************************************)
\* A tool name or a candidate is the sequence of the fragments of its text;
\* str.lower works fragment by fragment.
Lower(frag) ==
    CASE frag = "Playwright" -> "playwright"
      [] frag = "Navigate"   -> "navigate"
      [] frag = "Snapshot"   -> "snapshot"
      [] OTHER               -> frag
LowerName(n) == [i \in 1..Len(n) |-> Lower(n[i])]

\* ln.startswith(c) and c in ln
StartsWith(n, c) == Len(c) <= Len(n) /\ SubSeq(n, 1, Len(c)) = c
Contains(n, c) == \E i \in 1..(Len(n) - Len(c) + 1) : SubSeq(n, i, i + Len(c) - 1) = c

\* The first name of the list that starts with / contains c, 0 if none.
FirstStartsWith(names, c) ==
    IF \E i \in 1..Len(names) : StartsWith(LowerName(names[i]), c)
    THEN CHOOSE i \in 1..Len(names) :
            /\ StartsWith(LowerName(names[i]), c)
            /\ \A j \in 1..(i - 1) : ~StartsWith(LowerName(names[j]), c)
    ELSE 0
FirstContains(names, c) ==
    IF \E i \in 1..Len(names) : Contains(LowerName(names[i]), c)
    THEN CHOOSE i \in 1..Len(names) :
            /\ Contains(LowerName(names[i]), c)
            /\ \A j \in 1..(i - 1) : ~Contains(LowerName(names[j]), c)
    ELSE 0

\* The null result of _match_tool.
NoTool == <<>>

\* _match_tool, from candidate k on: for each candidate in turn, the first
\* name that starts with it, else the first name that contains it.
RECURSIVE MatchFrom(_, _, _)
MatchFrom(names, cands, k) ==
    IF k > Len(cands) THEN NoTool
    ELSE LET c == LowerName(cands[k])
             i == FirstStartsWith(names, c)
             j == FirstContains(names, c)
         IN  IF i # 0 THEN names[i]
             ELSE IF j # 0 THEN names[j]
             ELSE MatchFrom(names, cands, k + 1)

_match_tool(names, cands) == MatchFrom(names, cands, 1)

NavigateCandidates ==
    << <<"playwright", "_", "navigate">>, <<"playwright", ".", "navigate">>,
       <<"page", ".", "navigate">>, <<"navigate">> >>
SnapshotCandidates ==
    << <<"playwright", "_", "snapshot">>, <<"playwright", ".", "snapshot">>,
       <<"page", ".", "snapshot">>, <<"snapshot">> >>

\* The tool lists a server may advertise: none, the four tools of this
\* repository's server, differently named tools, a snapshot tool alone.
ToolLists ==
    { <<>>,
      << <<"playwright", "_", "navigate">>, <<"playwright", "_", "snapshot">>,
         <<"playwright", "_", "click">>, <<"playwright", "_", "fill">> >>,
      << <<"browser", "_", "Navigate">>, <<"browser", "_", "Snapshot">> >>,
      << <<"page", ".", "snapshot">> >> }

\* Page elements, and the lists of them a snapshot may hold.
MaxElements == 2
Elements == {[role |-> "textbox", name |-> "Search"], [role |-> "link", name |-> "Crime Data"]}
ElementLists == SeqsUpTo(Elements, MaxElements)

PageUrl == "https://data.lacity.org/"
OtherUrl == "about:blank"

\* The values call() may return: None, a str (text that is not JSON), or
\* parsed JSON: a list or a dict.  A dict has or lacks the keys url, elements
\* and error.
NoKey == [t |-> "absent"]
Key(v) == [t |-> "present", v |-> v]
JDict(url, elements, error) == [t |-> "dict", url |-> url, elements |-> elements, error |-> error]
Dicts ==
    { JDict(NoKey, NoKey, NoKey),
      JDict(NoKey, NoKey, Key("boom")) }
    \cup { JDict(Key(u), NoKey, NoKey) : u \in {PageUrl} }
    \cup { JDict(Key(u), Key(els), NoKey) : u \in {PageUrl, OtherUrl}, els \in ElementLists }
JStr(text) == [t |-> "str", v |-> text]
JList(n) == [t |-> "list", len |-> n]
Values == Dicts \cup {JStr(""), JStr("oops"), JList(0), JList(1)}

\* A content item of a tool result: its text attribute is None, or a text
\* that json.loads parses to a value, or a text it does not parse.
NoText == [t |-> "notext"]
Item(v) == [t |-> "text", v |-> v]
Contents ==
    {<<>>, <<NoText>>} \cup {<<Item(v)>> : v \in Values}
    \cup {<<NoText, Item(JDict(Key(PageUrl), Key(els), NoKey))>> : els \in {q1 \in ElementLists : Len(q1) = 1}}

\* What a tool call may do: raise, or return a result with this content.
ToolAnswers == {[raises |-> TRUE, content |-> <<>>]} \cup {[raises |-> FALSE, content |-> c] : c \in Contents}

\* call(): the value of the first content item that has a text; None when
\* there is no content or no such item.
CallValue(content) ==
    IF \E i \in 1..Len(content) : content[i] # NoText
    THEN LET i == CHOOSE k \in 1..Len(content) :
                     content[k] # NoText /\ \A j \in 1..(k - 1) : content[j] = NoText
         IN  content[i].v
    ELSE None

\* Python truthiness of a value call() returned.
TruthyValue(v) ==
    CASE v = None      -> FALSE
      [] v.t = "str"   -> v.v # ""
      [] v.t = "list"  -> v.len > 0
      [] OTHER         -> v # JDict(NoKey, NoKey, NoKey)

NoHints == [t |-> "empty"]
Context(source, url, title, elements, testids, hints) ==
    [t |-> "ctx", source |-> source, url |-> url, title |-> title, elements |-> elements,
     testids |-> testids, hints |-> hints]

\* dict.get(key, default) on a parsed dict.
DictGet(k, default) == IF k = NoKey THEN default ELSE k.v

\* A normalization that fills in the URL of the caller.
Normalize_CallerUrl(v) ==
    IF ~TruthyValue(v) THEN [raised |-> "none", value |-> None]
    ELSE IF v.t # "dict" THEN [raised |-> "Exception", value |-> None]
    ELSE [raised |-> "none",
          value |-> Context("unset", PageUrl, "", DictGet(v.elements, <<>>), <<>>, NoHints)]

\* get_page_context once a snapshot tool was found and called, v being what
\* call() returned: None, the normalized context, or an exception
\* (data.keys() of a value that is no dict).
Normalize(v) ==
    IF ~TruthyValue(v) THEN [raised |-> "none", value |-> None]
    ELSE IF v.t # "dict" THEN [raised |-> "Exception", value |-> None]
    ELSE [raised |-> "none",
          value |-> Context("unset", DictGet(v.url, ""), "", DictGet(v.elements, <<>>), <<>>, NoHints)]

(***************************************************************************)
(* The page context builder (ai_agent.py, build_page_context).             *)
(***************************************************************************)
\* _get_config_from_env / build_playwright_mcp: no client when the launch
\* command is unset or empty.
Cmds == {"unset", "", "python3"}
Configured(cmd) == cmd \notin {"unset", ""}

\* The test on what the session returned: data and isinstance(data, dict)
\* and data.get("elements").
Usable_AnyData(data) == data # None

Usable(data) == data # None /\ data.t = "ctx" /\ data.elements # <<>>

\* Where _run goes after client.navigate(url) ended, by return or by an
\* exception: a failed navigate is passed over.
AfterNavigate_NoCatch(ended) == IF ended = "raised" THEN "closing" ELSE "snapshot"

AfterNavigate(ended) == "snapshot"

\* The accessibility trees the local probe may see.
Node(role, name, children) == [role |-> role, name |-> name, children |-> children]
AxTrees ==
    { Node("button", "Go", <<>>),
      Node("WebArea", "LA Data", << Node("textbox", "Search", <<>>),
                                    Node("heading", "Datasets", << Node("link", "Crime Data", <<>>) >>) >>) }
WalkRoles == {"textbox", "button", "link", "combobox", "menuitem", "checkbox", "radio", "img"}

\* walk(node): the interactive nodes of the tree, in document order.
RECURSIVE walk(_)
RECURSIVE walkAll(_)
walk(node) ==
    (IF node.role \in WalkRoles THEN <<[role |-> node.role, name |-> node.name]>> ELSE <<>>)
    \o walkAll(node.children)
walkAll(nodes) == IF nodes = <<>> THEN <<>> ELSE walk(Head(nodes)) \o walkAll(Tail(nodes))

\* What the local probes may answer.
AxAnswers == {[kind |-> "raises"], [kind |-> "none"]} \cup {[kind |-> "tree", tree |-> t] : t \in AxTrees}
TestIdAnswers == {[kind |-> "raises"], [kind |-> "list", ids |-> <<>>], [kind |-> "list", ids |-> <<"search-box">>]}
CountAnswers == {[kind |-> "raises"], [kind |-> "count", n |-> 0], [kind |-> "count", n |-> 1]}

\* The context the local path builds from the answers of its four probes.
LocalContext(ax, ids, search, submit) ==
    Context("local", PageUrl, "",
            IF ax.kind = "tree" THEN walk(ax.tree) ELSE <<>>,
            IF ids.kind = "list" THEN ids.ids ELSE <<>>,
            [has_search_box |-> search.n > 0, has_submit_btn |-> submit.n > 0])

CtxInit ==
    /\ c_pc = "start"
    /\ c_cmd \in Cmds
    /\ c_ctx = None
    /\ c_local = <<>>
    /\ w_pc = "none"
    /\ w_exc = "none"
    /\ w_res = None
    /\ q = <<>>
    /\ s_transport = "none"
    /\ s_tools = <<>>
    /\ s_nav = "none"
    /\ s_nav_ans = <<>>
    /\ s_snap = None
    /\ s_calls = <<>>

CtxIdle ==
    /\ c_pc = "idle" /\ c_cmd = "unset" /\ c_ctx = None /\ c_local = <<>>
    /\ w_pc = "none" /\ w_exc = "none" /\ w_res = None /\ q = <<>>
    /\ s_transport = "none" /\ s_tools = <<>> /\ s_nav = "none" /\ s_snap = None
    /\ s_calls = <<>> /\ s_nav_ans = <<>>

Req(op, tool) == [op |-> op, tool |-> tool]

\* build_page_context up to the start of the worker thread: the import of
\* mcp_client may fail, build_playwright_mcp may give no client; else the
\* thread is started and the caller waits in t.join().
CtxStart ==
    /\ c_pc = "start"
    /\ \E import_ok \in BOOLEAN :
         IF import_ok /\ Configured(c_cmd)
         THEN c_pc' = "join" /\ w_pc' = "boot"
         ELSE c_pc' = "local" /\ w_pc' = w_pc
    /\ UNCHANGED <<c_cmd, c_ctx, c_local, w_exc, w_res, q, svars>>
    /\ UNCHANGED <<pvars, evars, ovars>>

\* worker(): import anyio, then anyio.run(_run) enters "async with mcp".
WorkerBoot ==
    /\ w_pc = "boot"
    /\ \E import_ok \in BOOLEAN :
         IF import_ok
         THEN w_pc' = "transport" /\ w_exc' = w_exc
         ELSE w_pc' = "finish" /\ w_exc' = "Exception"
    /\ UNCHANGED <<cvars, w_res, q, svars>>
    /\ UNCHANGED <<pvars, evars, ovars>>

\* __aenter__: stdio_client(server_params).__aenter__() starts the tool
\* server and its transport, or raises.
OpenTransport ==
    /\ w_pc = "transport"
    /\ \E ok \in BOOLEAN :
         IF ok
         THEN /\ s_transport' = "open"
              /\ s_calls' = Append(s_calls, Req("spawn", NoTool))
              /\ w_pc' = "handshake"
              /\ w_exc' = w_exc
         ELSE /\ w_pc' = "finish"
              /\ w_exc' = "Exception"
              /\ UNCHANGED <<s_transport, s_calls>>
    /\ UNCHANGED <<cvars, w_res, q, s_tools, s_nav, s_nav_ans, s_snap>>
    /\ UNCHANGED <<pvars, evars, ovars>>

\* __aenter__: ClientSession.__aenter__() and initialize().  An exception
\* of either leaves __aenter__, and with it "async with": __aexit__ is not
\* run; initialize() is requested only when the session was entered.
Handshake ==
    /\ w_pc = "handshake"
    /\ \E entered \in BOOLEAN, ok \in BOOLEAN :
         IF ~entered
         THEN w_pc' = "finish" /\ w_exc' = "Exception" /\ s_calls' = s_calls
         ELSE /\ s_calls' = Append(s_calls, Req("initialize", NoTool))
              /\ IF ok
                 THEN w_pc' = "discover" /\ w_exc' = w_exc
                 ELSE w_pc' = "finish" /\ w_exc' = "Exception"
    /\ UNCHANGED <<cvars, w_res, q, s_transport, s_tools, s_nav, s_nav_ans, s_snap>>
    /\ UNCHANGED <<pvars, evars, ovars>>

\* __aenter__: _refresh_tools().  As for the handshake, an exception leaves
\* "async with" without __aexit__.
DiscoverTools ==
    /\ w_pc = "discover"
    /\ s_calls' = Append(s_calls, Req("list_tools", NoTool))
    /\ \/ \E tools \in ToolLists :
            /\ s_tools' = tools
            /\ w_pc' = "navigate"
            /\ w_exc' = w_exc
       \/ /\ w_pc' = "finish"
          /\ w_exc' = "Exception"
          /\ s_tools' = s_tools
    /\ UNCHANGED <<cvars, w_res, q, s_transport, s_nav, s_nav_ans, s_snap>>
    /\ UNCHANGED <<pvars, evars, ovars>>

\* A navigate that lists the tools of the server again before it resolves
\* the tool name.
NavigateCall_Refreshes ==
    /\ w_pc = "navigate"
    /\ \E tools \in ToolLists :
         LET name == _match_tool(tools, NavigateCandidates) IN
         /\ s_tools' = tools
         /\ IF name = NoTool
            THEN /\ s_nav' = "false"
                 /\ s_calls' = s_calls \o <<Req("list_tools", NoTool), Req("navigate", NoTool)>>
                 /\ w_pc' = AfterNavigate("false")
            ELSE /\ s_nav' = s_nav
                 /\ s_calls' = s_calls \o <<Req("list_tools", NoTool), Req("navigate", name)>>
                 /\ w_pc' = "nav_wait"
    /\ UNCHANGED <<cvars, w_exc, w_res, q, s_transport, s_nav_ans, s_snap>>
    /\ UNCHANGED <<pvars, evars, ovars>>

\* client.navigate(url) up to its tool call: False when no tool matches.
NavigateCall ==
    /\ w_pc = "navigate"
    /\ LET name == _match_tool(s_tools, NavigateCandidates) IN
       IF name = NoTool
       THEN /\ s_nav' = "false"
            /\ s_calls' = Append(s_calls, Req("navigate", NoTool))
            /\ w_pc' = AfterNavigate("false")
       ELSE /\ s_nav' = s_nav
            /\ s_calls' = Append(s_calls, Req("navigate", name))
            /\ w_pc' = "nav_wait"
    /\ UNCHANGED <<cvars, w_exc, w_res, q, s_transport, s_tools, s_nav_ans, s_snap>>
    /\ UNCHANGED <<pvars, evars, ovars>>

\* navigate that answers False when the tool returned nothing.
NavigateResult_FalseOnEmpty(a) ==
    IF a.raises THEN "raised"
    ELSE IF CallValue(a.content) = None THEN "false" ELSE "true"

\* How navigate ends once its tool call has ended with answer a: the
\* exception of the call leaves navigate; what call() returned is ignored.
NavigateResult(a) == IF a.raises THEN "raised" ELSE "true"

\* The navigate tool call ends: True whatever it returned; an exception is
\* caught by _run.
NavigateDone ==
    /\ w_pc = "nav_wait"
    /\ \E a \in ToolAnswers :
         LET ended == NavigateResult(a) IN
         /\ s_nav' = ended
         /\ s_nav_ans' = <<a>>
         /\ w_pc' = AfterNavigate(ended)
    /\ UNCHANGED <<cvars, w_exc, w_res, q, s_transport, s_tools, s_snap, s_calls>>
    /\ UNCHANGED <<pvars, evars, ovars>>

\* client.get_page_context() up to its tool call: None when no tool matches.
SnapshotCall ==
    /\ w_pc = "snapshot"
    /\ LET name == _match_tool(s_tools, SnapshotCandidates) IN
       /\ s_calls' = Append(s_calls, Req("get_page_context", name))
       /\ w_pc' = IF name = NoTool THEN "closing" ELSE "snap_wait"
    /\ UNCHANGED <<cvars, w_exc, w_res, q, s_transport, s_tools, s_nav, s_nav_ans, s_snap>>
    /\ UNCHANGED <<pvars, evars, ovars>>

\* The snapshot tool call ends and get_page_context normalizes what call()
\* returned; _run returns the data, or the exception leaves the body.
SnapshotDone ==
    /\ w_pc = "snap_wait"
    /\ \E a \in ToolAnswers :
         IF a.raises
         THEN /\ w_exc' = "Exception"
              /\ UNCHANGED <<w_res, s_snap>>
         ELSE LET v == CallValue(a.content)
                  n == Normalize(v)
              IN  /\ s_snap' = v
                  /\ w_exc' = n.raised
                  /\ w_res' = n.value
    /\ w_pc' = "closing"
    /\ UNCHANGED <<cvars, q, s_transport, s_tools, s_nav, s_nav_ans, s_calls>>
    /\ UNCHANGED <<pvars, evars, ovars>>

\* __aexit__: the session and then the stdio transport are closed.
CloseSession ==
    /\ w_pc = "closing"
    /\ s_transport' = "released"
    /\ w_pc' = "finish"
    /\ UNCHANGED <<cvars, w_exc, w_res, q, s_tools, s_nav, s_nav_ans, s_snap, s_calls>>
    /\ UNCHANGED <<pvars, evars, ovars>>

\* The places where the session coroutine is suspended: the awaits of
\* __aenter__ (the stdio transport, the session and initialize(),
\* list_tools()), of the two tool calls and of __aexit__.
AwaitPoints == {"transport", "handshake", "discover", "nav_wait", "snap_wait", "closing"}

\* The requests made by the time the session is cancelled at await point
\* at: list_tools() has been called; the handshake is cancelled in
\* ClientSession.__aenter__() or in initialize(), sent telling which.
CancelledCalls(at, sent) ==
    CASE at = "discover"           -> Append(s_calls, Req("list_tools", NoTool))
      [] at = "handshake" /\ sent  -> Append(s_calls, Req("initialize", NoTool))
      [] OTHER                     -> s_calls

\* The session ends at one of its suspension points with an exception that
\* is no Exception (the task is cancelled: asyncio.CancelledError).  No
\* "except Exception" catches it, and it takes the place of an exception of
\* the body that is pending in __aexit__; in the body of "async with"
\* __aexit__ runs.
SessionCancelled ==
    /\ w_pc \in AwaitPoints
    /\ w_exc' = "BaseException"
    /\ w_pc' = IF w_pc \in {"nav_wait", "snap_wait"} THEN "closing" ELSE "finish"
    /\ s_nav' = IF w_pc = "nav_wait" THEN "cancelled" ELSE s_nav
    /\ \E sent \in BOOLEAN : s_calls' = CancelledCalls(w_pc, sent)
    /\ UNCHANGED <<cvars, w_res, q, s_transport, s_tools, s_nav_ans, s_snap>>
    /\ UNCHANGED <<pvars, evars, ovars>>

\* The requests whose answer the session awaits with no timeout:
\* session.initialize(), session.list_tools(), session.call_tool().
Awaited == {"handshake", "discover", "nav_wait", "snap_wait"}

\* The tool server never answers the request: the await does not end, the
\* session stays suspended.
ServerSilent ==
    /\ w_pc \in Awaited
    /\ w_pc' = "hung"
    /\ s_calls' = CASE w_pc = "handshake" -> Append(s_calls, Req("initialize", NoTool))
                    [] w_pc = "discover"  -> Append(s_calls, Req("list_tools", NoTool))
                    [] OTHER              -> s_calls
    /\ UNCHANGED <<cvars, w_exc, w_res, q, s_transport, s_tools, s_nav, s_nav_ans, s_snap>>
    /\ UNCHANGED <<pvars, evars, ovars>>

\* worker() after anyio.run: the result or the Exception is put on the
\* queue; an exception that is no Exception ends the thread with no put.
WorkerFinish ==
    /\ w_pc = "finish"
    /\ q' = CASE w_exc = "none"      -> Append(q, [status |-> "ok", payload |-> w_res])
              [] w_exc = "Exception" -> Append(q, [status |-> "err", payload |-> None])
              [] OTHER               -> q
    /\ w_pc' = "exited"
    /\ UNCHANGED <<cvars, w_exc, w_res, svars>>
    /\ UNCHANGED <<pvars, evars, ovars>>

\* t.join() returns when the worker thread has ended.
Join ==
    /\ c_pc = "join"
    /\ w_pc = "exited"
    /\ c_pc' = "get"
    /\ UNCHANGED <<c_cmd, c_ctx, c_local, wvars, svars>>
    /\ UNCHANGED <<pvars, evars, ovars>>

\* q.get() returns an item: usable data is tagged "mcp" and returned; data
\* that is not usable, or an exception raised again and caught by the outer
\* except, lead to the local path.
QueueGet ==
    /\ c_pc = "get"
    /\ q # <<>>
    /\ LET item == Head(q) IN
       IF item.status = "ok" /\ Usable(item.payload)
       THEN /\ c_ctx' = [item.payload EXCEPT !.source = "mcp"]
            /\ c_pc' = "returned"
       ELSE /\ c_ctx' = c_ctx
            /\ c_pc' = "local"
    /\ q' = Tail(q)
    /\ UNCHANGED <<c_cmd, c_local, w_pc, w_exc, w_res, svars>>
    /\ UNCHANGED <<pvars, evars, ovars>>

\* The local path: the accessibility snapshot and the test-id scan are
\* guarded, the two locator counts are not.
LocalFallback ==
    /\ c_pc = "local"
    /\ \E ax \in AxAnswers, ids \in TestIdAnswers, search \in CountAnswers, submit \in CountAnswers :
         IF search.kind = "raises"
         THEN /\ c_local' = <<"ax", "testids", "search">>
              /\ c_pc' = "raised"
              /\ c_ctx' = c_ctx
         ELSE IF submit.kind = "raises"
         THEN /\ c_local' = <<"ax", "testids", "search", "submit">>
              /\ c_pc' = "raised"
              /\ c_ctx' = c_ctx
         ELSE /\ c_local' = <<"ax", "testids", "search", "submit">>
              /\ c_pc' = "returned"
              /\ c_ctx' = LocalContext(ax, ids, search, submit)
    /\ UNCHANGED <<c_cmd, wvars, svars>>
    /\ UNCHANGED <<pvars, evars, ovars>>

CtxNext ==
    \/ CtxStart \/ Join \/ QueueGet \/ LocalFallback
    \/ WorkerBoot \/ OpenTransport \/ Handshake \/ DiscoverTools
    \/ NavigateCall \/ NavigateDone \/ SnapshotCall \/ SnapshotDone
    \/ CloseSession \/ SessionCancelled \/ WorkerFinish \/ ServerSilent

(***************************************************************************)
(* Tool-name resolution on its own: _match_tool applied to a discovered    *)
(* tool list and a candidate list.                                         *)
(***************************************************************************)
MaxTools == 2
MaxCands == 2

\* Tool names a server may advertise and candidates a caller may ask for.
ToolNames ==
    { <<"playwright", "_", "navigate">>, <<"Playwright", "_", "Navigate">>,
      <<"x", "_", "playwright", "_", "navigate">>, <<"navigate", "_", "to">>,
      <<"page", ".", "snapshot">> }
CandidateNames ==
    { <<"playwright", "_", "navigate">>, <<"Navigate">>, <<"snapshot">> }

MatchInit ==
    /\ t_pc = "start"
    /\ t_names \in SeqsUpTo(ToolNames, MaxTools)
    /\ t_cands \in SeqsUpTo(CandidateNames, MaxCands)
    /\ t_res = NoTool

MatchIdle == t_pc = "idle" /\ t_names = <<>> /\ t_cands = <<>> /\ t_res = NoTool

\* One call of _match_tool(candidates) on the discovered names.
Resolve ==
    /\ t_pc = "start"
    /\ t_res' = _match_tool(t_names, t_cands)
    /\ t_pc' = "done"
    /\ UNCHANGED <<t_names, t_cands>>
    /\ UNCHANGED <<pvars, evars, bvars, gvars, nvars>>

MatchNext == Resolve

(***************************************************************************)
(* The tool server (mcp_server.py).  The protocol library hands each       *)
(* incoming tools/call request to call_tool in a task of its own, so two   *)
(* calls may be in progress at once and interleave at their awaits.        *)
(***************************************************************************)
MaxCalls == 3

\* The handler tasks that may be in progress at once.
Tasks == {"t1", "t2"}

\* list_tools: the advertised tools.
list_tools ==
    {"playwright_navigate", "playwright_snapshot", "playwright_click", "playwright_fill"}

\* The names a client may ask for, and whether the arguments hold the keys
\* the tool reads.
RequestedTools == list_tools \cup {"playwright_close"}
NeedsArgs == {"playwright_navigate", "playwright_click", "playwright_fill"}
ArgsOf(tool) == IF tool \in NeedsArgs THEN {"given", "missing"} ELSE {"given"}

\* The answers of the page to the driver calls a handler has awaited so
\* far: none for a handler that keeps no account of them.
NoAnswers == [asked |-> "none"]

NoCall == [pc |-> "idle", tool |-> "", args |-> "", d |-> NoAnswers]

ServerInit ==
    /\ g_playwright = 0 /\ g_launched = 0 /\ g_browser = "none" /\ g_page = "none"
    /\ g_calls = 0 /\ g_sent = 0 /\ g_reply = None /\ g_crashed = FALSE
    /\ g_task = [t \in Tasks |-> NoCall]

\* The server at rest.
ServerIdle ==
    /\ g_playwright = 0 /\ g_launched = 0 /\ g_browser = "none" /\ g_page = "none"
    /\ g_calls = 0 /\ g_sent = 0 /\ g_reply = None /\ g_crashed = FALSE
    /\ g_task = <<>>

\* The payloads call_tool returns as JSON text.
ErrorPayload(threw) == [kind |-> "error", keys |-> {"error", "trace"}, error |-> threw]
ResultPayload(result) == [kind |-> "result", keys |-> result.keys, result |-> result]

\* What the page answered to the driver calls of a tool, kept with the
\* answer of the call.
Driver(kind, d) == [kind |-> kind, d |-> d]
NoDriver == Driver("none", "")

\* call_tool when only the ValueError of an unknown name is handled.
Escapes_AllButValueError(threw) == threw \notin {"none", "ValueError"}

\* "except Exception" in call_tool: no exception raised in its try leaves it.
Escapes(threw) == FALSE

\* call_tool comes to its end for task t: threw is the exception raised in
\* the try ("none" if none), result the value of the tool; driver is what
\* the page answered to the tool and result.steps the driver calls made.
Finish(t, tool, args, threw, result, driver) ==
    /\ g_task' = [g_task EXCEPT ![t] = NoCall]
    /\ IF threw # "none" /\ Escapes(threw)
       THEN /\ g_crashed' = TRUE
            /\ UNCHANGED <<g_sent, g_reply>>
       ELSE /\ g_crashed' = g_crashed
            /\ g_sent' = g_sent + 1
            /\ g_reply' = [task |-> t, tool |-> tool, args |-> args,
                           threw |-> threw, driver |-> driver, steps |-> result.steps,
                           payload |-> IF threw # "none" THEN ErrorPayload(threw)
                                       ELSE ResultPayload(result)]

\* The values the tools return.
Result(keys, path, warning, elements, steps) ==
    [keys |-> keys, path |-> path, warning |-> warning, elements |-> elements, steps |-> steps]
NoResult == Result({}, "none", FALSE, <<>>, <<>>)
SnapshotKeys == {"url", "title", "elements", "element_count"}

\* The accessibility trees the server's page may have, and the elements the
\* rich scan may give.
ServerAxTrees ==
    AxTrees \cup { Node("WebArea", "Home", << Node("img", "Logo", <<>>),
                                               Node("link", "Data", <<>>) >>) }
RichElements == <<[role |-> "link", name |-> "Crime Data"]>>

\* walk(n) of get_snapshot: the nodes of these roles, in document order.
SnapshotWalkRoles == {"textbox", "button", "link", "combobox", "menuitem", "checkbox", "radio"}
RECURSIVE snapshot_walk(_)
RECURSIVE snapshot_walkAll(_)
snapshot_walk(n) ==
    (IF n.role \in SnapshotWalkRoles THEN <<[role |-> n.role, name |-> n.name]>> ELSE <<>>)
    \o snapshot_walkAll(n.children)
snapshot_walkAll(ns) ==
    IF ns = <<>> THEN <<>> ELSE snapshot_walk(Head(ns)) \o snapshot_walkAll(Tail(ns))

\* What the page may answer to the driver calls of get_snapshot.
Answers == {"ok", "raises"}
Unasked == "unasked"
AxSnapshots ==
    {[kind |-> "raises"], [kind |-> "none"]} \cup {[kind |-> "tree", tree |-> tr] : tr \in ServerAxTrees}

\* doc_title is the title the rich scan reads from the document; title and
\* title_again are the answers to the first and the second page.title().
DocTitles == {"", "LA Data"}

\* get_snapshot before its first driver call has ended.
NoSnapshotAnswers ==
    [load |-> Unasked, probe |-> Unasked, rich |-> Unasked, doc_title |-> "LA Data",
     title |-> Unasked, title_again |-> Unasked, ax |-> [kind |-> Unasked]]

\* data.get("title") or await self.page.title(), inside the try of the rich
\* scan: page.title() is asked when the document has no title.
TitleInTry(d) == d.rich = "ok" /\ d.doc_title = ""

\* The try of the rich scan comes to its return.
RichDone(d) == d.rich = "ok" /\ (~TitleInTry(d) \/ d.title = "ok")

\* The answer to page.title() on the fallback path.
FallbackTitle(d) == IF TitleInTry(d) THEN d.title_again ELSE d.title

\* The driver call get_snapshot is suspended in, the calls before it having
\* been answered as d tells: the wait for the load state, the title probe,
\* the rich scan, page.title() in its try when the document has no title,
\* and on the fallback path the accessibility snapshot and page.title();
\* "done" when get_snapshot has returned or raised.
NextSnapshotAwait(d) ==
    IF d.load = Unasked THEN "load"
    ELSE IF d.probe = Unasked THEN "probe"
    ELSE IF d.probe = "raises" THEN "done"
    ELSE IF d.rich = Unasked THEN "rich"
    ELSE IF TitleInTry(d) /\ d.title = Unasked THEN "title"
    ELSE IF RichDone(d) THEN "done"
    ELSE IF d.ax.kind = Unasked THEN "ax"
    ELSE IF TitleInTry(d) THEN (IF d.title_again = Unasked THEN "title_again" ELSE "done")
    ELSE IF d.title = Unasked THEN "title" ELSE "done"

\* d with the answer to the driver call at: the rich scan that returns
\* also gives the title of the document.
SnapshotAnswered(d, at) ==
    CASE at = "rich" -> {[d EXCEPT !.rich = "raises"]}
                        \cup {[d EXCEPT !.rich = "ok", !.doc_title = ti] : ti \in DocTitles}
      [] at = "ax"   -> {[d EXCEPT !.ax = a] : a \in AxSnapshots}
      [] OTHER       -> {[d EXCEPT ![at] = a] : a \in Answers}

\* get_snapshot after start_browser, the page answering d: [threw, result].
\* A failed wait for the load state is passed over; a failed title probe is
\* raised as RuntimeError; an exception in the try of the rich scan leads
\* to the accessibility walk, which needs page.title() to succeed.
get_snapshot(page, d) ==
    IF page = "none" \/ d.probe = "raises"
    THEN [threw |-> "RuntimeError", result |-> NoResult]
    ELSE IF RichDone(d)
    THEN [threw |-> "none",
          result |-> Result(SnapshotKeys \cup {"recommended"}, "rich", FALSE, RichElements, <<>>)]
    ELSE IF FallbackTitle(d) = "raises"
    THEN [threw |-> "Exception", result |-> NoResult]
    ELSE IF d.ax.kind = "raises"
    THEN [threw |-> "none",
          result |-> Result(SnapshotKeys \cup {"warning"}, "minimal", TRUE, <<>>, <<>>)]
    ELSE [threw |-> "none",
          result |-> Result(SnapshotKeys \cup {"recommended", "warning"}, "ax", TRUE,
                            IF d.ax.kind = "tree" THEN snapshot_walk(d.ax.tree) ELSE <<>>,
                            <<>>)]

\* fill before its first driver call has ended.  meta and control are the
\* answers of the two select-all chords, each of three keyboard calls;
\* chord counts the calls of the chord in progress that have returned.
NoFillAnswers ==
    [scroll |-> Unasked, click |-> Unasked, meta |-> Unasked, control |-> Unasked,
     backspace |-> Unasked, type |-> Unasked, chord |-> 0]

\* The keyboard calls of a select-all chord: down, press, up.
ChordCalls == 3

\* The driver call fill is suspended in, the calls before it having been
\* answered as d tells; "done" when fill has returned or raised.
NextFillAwait(d) ==
    IF d.scroll = Unasked THEN "scroll"
    ELSE IF d.scroll = "raises" THEN "done"
    ELSE IF d.click = Unasked THEN "click"
    ELSE IF d.click = "raises" THEN "done"
    ELSE IF d.meta = Unasked THEN "meta"
    ELSE IF d.meta = "raises" /\ d.control = Unasked THEN "control"
    ELSE IF d.backspace = Unasked THEN "backspace"
    ELSE IF d.backspace = "raises" THEN "done"
    ELSE IF d.type = Unasked THEN "type" ELSE "done"

\* d with the answer a to the driver call at: a chord has failed when one
\* of its calls raises and has succeeded when its last call returns.
FillAnswered(d, at, a) ==
    IF at \in {"meta", "control"}
    THEN IF a = "raises" THEN [d EXCEPT ![at] = "raises", !.chord = 0]
         ELSE IF d.chord = ChordCalls - 1 THEN [d EXCEPT ![at] = "ok", !.chord = 0]
         ELSE [d EXCEPT !.chord = @ + 1]
    ELSE [d EXCEPT ![at] = a]

\* fill that gives up when the select-all chord fails.
fill_SelectAllUnguarded(page, d) ==
    IF page = "none" THEN [threw |-> "AttributeError", steps |-> <<>>]
    ELSE IF d.scroll = "raises" THEN [threw |-> "Exception", steps |-> <<"scroll">>]
    ELSE IF d.click = "raises" THEN [threw |-> "Exception", steps |-> <<"scroll", "click">>]
    ELSE IF d.meta = "raises"
    THEN [threw |-> "Exception", steps |-> <<"scroll", "click", "select_all_meta">>]
    ELSE IF d.backspace = "raises"
    THEN [threw |-> "Exception", steps |-> <<"scroll", "click", "select_all_meta", "backspace">>]
    ELSE [threw |-> IF d.type = "raises" THEN "Exception" ELSE "none",
          steps |-> <<"scroll", "click", "select_all_meta", "backspace", "type">>]

\* fill after start_browser, the page answering d: the driver calls made,
\* in order, and the exception raised.  The Meta+A chord is tried first and
\* Control+A when it raised; a failure of both is passed over.
fill(page, d) ==
    IF page = "none" THEN [threw |-> "AttributeError", steps |-> <<>>]
    ELSE IF d.scroll = "raises" THEN [threw |-> "Exception", steps |-> <<"scroll">>]
    ELSE IF d.click = "raises" THEN [threw |-> "Exception", steps |-> <<"scroll", "click">>]
    ELSE LET select == IF d.meta = "ok" THEN <<"select_all_meta">>
                       ELSE <<"select_all_meta", "select_all_control">>
             upto == <<"scroll", "click">> \o select \o <<"backspace">>
         IN  IF d.backspace = "raises" THEN [threw |-> "Exception", steps |-> upto]
             ELSE [threw |-> IF d.type = "raises" THEN "Exception" ELSE "none",
                   steps |-> Append(upto, "type")]

\* What a tool raises before any await when self.browser is set and
\* self.page is None: get_snapshot its RuntimeError, the others the
\* AttributeError of the access to the page.
OnNoPage(tool) ==
    CASE tool = "playwright_snapshot" -> get_snapshot("none", NoSnapshotAnswers).threw
      [] tool = "playwright_fill"     -> fill("none", NoFillAnswers).threw
      [] OTHER                        -> "AttributeError"

\* The account of driver answers a handler starts with.
FirstAnswers(tool) ==
    CASE tool = "playwright_snapshot" -> NoSnapshotAnswers
      [] tool = "playwright_fill"     -> NoFillAnswers
      [] OTHER                        -> NoAnswers

\* call_tool is entered for a new request and runs to its first await: an
\* unknown name and a missing argument raise at once; else start_browser
\* tests self.browser and either begins to start the session or goes on to
\* the tool's own work, which raises at once when self.page is None.
CallTool(t) ==
    /\ ~g_crashed
    /\ g_task[t].pc = "idle"
    /\ g_calls < MaxCalls
    /\ g_calls' = g_calls + 1
    /\ \E tool \in RequestedTools : \E args \in ArgsOf(tool) :
         IF tool \notin list_tools
         THEN /\ Finish(t, tool, args, "ValueError", NoResult, NoDriver)
              /\ UNCHANGED <<g_playwright, g_launched, g_browser, g_page>>
         ELSE IF args = "missing"
         THEN /\ Finish(t, tool, args, "KeyError", NoResult, NoDriver)
              /\ UNCHANGED <<g_playwright, g_launched, g_browser, g_page>>
         ELSE IF g_browser # "none" /\ g_page = "none"
         THEN /\ Finish(t, tool, args, OnNoPage(tool), NoResult, NoDriver)
              /\ UNCHANGED <<g_playwright, g_launched, g_browser, g_page>>
         ELSE /\ g_task' = [g_task EXCEPT ![t] =
                              [pc |-> IF g_browser = "none" THEN "sb_playwright" ELSE "body",
                               tool |-> tool, args |-> args, d |-> FirstAnswers(tool)]]
              /\ UNCHANGED <<g_playwright, g_launched, g_browser, g_page,
                             g_sent, g_reply, g_crashed>>
    /\ UNCHANGED <<pvars, evars, bvars, tvars, nvars>>

\* start_browser: async_playwright().start() ends.
StartPlaywright(t) ==
    /\ ~g_crashed
    /\ g_task[t].pc = "sb_playwright"
    /\ \E a \in Answers :
         IF a = "raises"
         THEN /\ Finish(t, g_task[t].tool, g_task[t].args, "Exception", NoResult, NoDriver)
              /\ UNCHANGED g_playwright
         ELSE /\ g_playwright' = g_playwright + 1
              /\ g_task' = [g_task EXCEPT ![t].pc = "sb_launch"]
              /\ UNCHANGED <<g_sent, g_reply, g_crashed>>
    /\ UNCHANGED <<g_launched, g_browser, g_page, g_calls>>
    /\ UNCHANGED <<pvars, evars, bvars, tvars, nvars>>

\* start_browser: chromium.launch ends and self.browser is set.
LaunchBrowser(t) ==
    /\ ~g_crashed
    /\ g_task[t].pc = "sb_launch"
    /\ \E a \in Answers :
         IF a = "raises"
         THEN /\ Finish(t, g_task[t].tool, g_task[t].args, "Exception", NoResult, NoDriver)
              /\ UNCHANGED <<g_launched, g_browser>>
         ELSE /\ g_launched' = g_launched + 1
              /\ g_browser' = "set"
              /\ g_task' = [g_task EXCEPT ![t].pc = "sb_page"]
              /\ UNCHANGED <<g_sent, g_reply, g_crashed>>
    /\ UNCHANGED <<g_playwright, g_page, g_calls>>
    /\ UNCHANGED <<pvars, evars, bvars, tvars, nvars>>

\* start_browser: browser.new_page ends and self.page is set.
NewPage(t) ==
    /\ ~g_crashed
    /\ g_task[t].pc = "sb_page"
    /\ \E a \in Answers :
         IF a = "raises"
         THEN /\ Finish(t, g_task[t].tool, g_task[t].args, "Exception", NoResult, NoDriver)
              /\ UNCHANGED g_page
         ELSE /\ g_page' = "set"
              /\ g_task' = [g_task EXCEPT ![t].pc = "body"]
              /\ UNCHANGED <<g_sent, g_reply, g_crashed>>
    /\ UNCHANGED <<g_playwright, g_launched, g_browser, g_calls>>
    /\ UNCHANGED <<pvars, evars, bvars, tvars, nvars>>

\* navigate and click after start_browser: one driver call on self.page.
NavigateOrClick(t) ==
    /\ ~g_crashed
    /\ g_task[t].pc = "body"
    /\ g_task[t].tool \in {"playwright_navigate", "playwright_click"}
    /\ \E a \in Answers :
         LET threw == IF a = "raises" THEN "Exception" ELSE "none"
             keys == IF g_task[t].tool = "playwright_navigate"
                     THEN {"success", "url"} ELSE {"success"}
         IN  Finish(t, g_task[t].tool, g_task[t].args, threw,
                    Result(keys, "none", FALSE, <<>>, <<>>), Driver("page", a))
    /\ UNCHANGED <<g_playwright, g_launched, g_browser, g_page, g_calls>>
    /\ UNCHANGED <<pvars, evars, bvars, tvars, nvars>>

\* get_snapshot after start_browser: the driver call it is suspended in
\* ends, and it runs on to its next driver call or to its end.
Snapshot(t) ==
    /\ ~g_crashed
    /\ g_task[t].pc = "body"
    /\ g_task[t].tool = "playwright_snapshot"
    /\ \E d \in SnapshotAnswered(g_task[t].d, NextSnapshotAwait(g_task[t].d)) :
         IF NextSnapshotAwait(d) = "done"
         THEN LET out == get_snapshot(g_page, d)
              IN  Finish(t, g_task[t].tool, g_task[t].args, out.threw, out.result,
                         Driver("snapshot", d))
         ELSE /\ g_task' = [g_task EXCEPT ![t].d = d]
              /\ UNCHANGED <<g_sent, g_reply, g_crashed>>
    /\ UNCHANGED <<g_playwright, g_launched, g_browser, g_page, g_calls>>
    /\ UNCHANGED <<pvars, evars, bvars, tvars, nvars>>

\* fill after start_browser: the driver call it is suspended in ends, and
\* it runs on to its next driver call or to its end.
Fill(t) ==
    /\ ~g_crashed
    /\ g_task[t].pc = "body"
    /\ g_task[t].tool = "playwright_fill"
    /\ \E a \in Answers :
         LET d == FillAnswered(g_task[t].d, NextFillAwait(g_task[t].d), a) IN
         IF NextFillAwait(d) = "done"
         THEN LET out == fill(g_page, d)
              IN  Finish(t, g_task[t].tool, g_task[t].args, out.threw,
                         Result({"success"}, "none", FALSE, <<>>, out.steps), Driver("fill", d))
         ELSE /\ g_task' = [g_task EXCEPT ![t].d = d]
              /\ UNCHANGED <<g_sent, g_reply, g_crashed>>
    /\ UNCHANGED <<g_playwright, g_launched, g_browser, g_page, g_calls>>
    /\ UNCHANGED <<pvars, evars, bvars, tvars, nvars>>

ServerNext ==
    \E t \in Tasks :
        \/ CallTool(t) \/ StartPlaywright(t) \/ LaunchBrowser(t) \/ NewPage(t)
        \/ NavigateOrClick(t) \/ Snapshot(t) \/ Fill(t)

(***************************************************************************)
(* Schema validation: _validator.validate(instance) and validate(instance, *)
(* ACTION_SCHEMA) applied to a JSON document.  A document is an array of   *)
(* items or a value of another type.                                       *)
(***************************************************************************)
MaxValLen == 2

Bool(s) == [t |-> "boolean", v |-> s]
Null == [t |-> "null", v |-> ""]

Array(items) == [t |-> "array", items |-> items]
Scalar(ty) == [t |-> ty, items |-> <<>>]

ValItems ==
    {Obj([action |-> Str("click"), selector |-> Str(ResultLinks)]),
     Obj([action |-> Str("select_option"), selector |-> Str(SearchInput), value |-> Str("crime")]),
     Obj([action |-> Str("sleep"), timeout_ms |-> Num("500")]),
     Obj([action |-> Str("extract"), selector |-> Str(ResultLinks), extra |-> Str("first result")]),
     Obj([action |-> Str("goto"), url |-> Str(PageUrl), extra |-> Num("1")]),
     Obj([action |-> Str("hover"), selector |-> Str(ResultLinks)]),
     Obj([action |-> Str("Goto"), url |-> Str(PageUrl)]),
     Obj([selector |-> Str(ResultLinks)]),
     Obj([action |-> Num("1")]),
     Obj([action |-> Null]),
     Obj([action |-> Str("wait_for"), timeout_ms |-> Str("7000")]),
     Obj([action |-> Str("goto"), url |-> Num("1")]),
     Obj([action |-> Str("sleep"), timeout_ms |-> Bool("true")]),
     NonObj("array"),
     NonObj("string")}

Documents ==
    {Array(items) : items \in SeqsUpTo(ValItems, MaxValLen)}
    \cup {Scalar("object"), Scalar("string"), Scalar("null")}

\* "type": "array" and "items" of ACTION_SCHEMA on a document.
ValidateInstance(doc) == doc.t = "array" /\ Validate(doc.items)

ValidateInit ==
    /\ v_pc = "ready"
    /\ v_doc \in Documents
    /\ v_ok = "none"

ValidateIdle == v_pc = "idle" /\ v_doc = Scalar("null") /\ v_ok = "none"

\* _validator.validate(doc): returns, or raises ValidationError.
ValidateDoc ==
    /\ v_pc = "ready"
    /\ v_ok' = IF ValidateInstance(v_doc) THEN "accepted" ELSE "rejected"
    /\ v_pc' = "done"
    /\ UNCHANGED v_doc
    /\ UNCHANGED <<pvars, evars, bvars, tvars, gvars, rvars, kvars, jvars>>

ValidateNext == ValidateDoc

(***************************************************************************)
(* run_goal (agent_cli.py): the browser is launched, the portal opened,    *)
(* the page context built, the plan made and run step by step, the result  *)
(* page scraped, the browser closed.  Each stage may raise.                *)
(***************************************************************************)
MaxAnchors == 2
MaxRunSteps == 2

\* A result item, and first_hit before any hit.
ResultItem(title, url) == [title |-> title, url |-> url]
NoHit == ResultItem("", <<>>)

\* What one result anchor gives: inner_text() and get_attribute("href"), or
\* an exception while it is read.
Titles == {"", "Crime Data"}
Unreadable == [raises |-> TRUE, title |-> "", href |-> NoHref]
Anchors ==
    {Unreadable}
    \cup {[raises |-> FALSE, title |-> t, href |-> h] :
             t \in Titles, h \in {NoHref, HrefVal(<<"/d/abc">>), HrefVal(<<"http:", "//other.org">>)}}

\* The slices anchors[:10] and results[:10].
MaxResults == 10
Take(sq, n) == IF Len(sq) > n THEN SubSeq(sq, 1, n) ELSE sq

\* A result page with n anchors like a.
Repeated(a, n) == [i \in 1..n |-> a]

\* page.locator(sel).all(): the anchors, or an exception.
AnchorAnswers ==
    {[raises |-> TRUE, anchors |-> <<>>]}
    \cup {[raises |-> FALSE, anchors |-> a] : a \in SeqsUpTo(Anchors, MaxAnchors)}
    \cup {[raises |-> FALSE,
           anchors |-> Repeated([raises |-> FALSE, title |-> "Crime Data", href |-> HrefVal(h)], n)] :
             h \in {<<"/d/abc">>, <<"http:", "//other.org">>}, n \in {MaxResults, MaxResults + 1}}

\* extract_first_result(page), called when nothing was collected: (title,
\* href or ""), or an exception.
NotCalled == [raises |-> FALSE, title |-> "", href |-> NoHref]
FirstResultAnswers(results) == IF results = <<>> THEN Anchors ELSE {NotCalled}

\* href if href.startswith("http") else the base and href.
Absolute(h) == IF StartsWithHttp(h) THEN h ELSE BaseUrl \o h

\* Python truthiness of an href read from the page.
HasHref(href) == href # NoHref /\ href.v # <<>>

\* The loop over the anchors: one item per anchor that is readable and has
\* a title and an href.
RECURSIVE Collect(_)
Collect(anchors) ==
    IF anchors = <<>> THEN <<>>
    ELSE LET a == Head(anchors) IN
         IF a.raises \/ a.title = "" \/ ~HasHref(a.href) THEN Collect(Tail(anchors))
         ELSE <<ResultItem(a.title, Absolute(a.href.v))>> \o Collect(Tail(anchors))

\* first_hit put at the end of the results.
Prepend_AtEnd(hit, results) ==
    IF hit # NoHit /\ \A i \in DOMAIN results : results[i].url # hit.url
    THEN Take(results \o <<hit>>, MaxResults)
    ELSE results

\* first_hit put in front when no collected result has its URL.
Prepend(hit, results) ==
    IF hit # NoHit /\ \A i \in DOMAIN results : results[i].url # hit.url
    THEN Take(<<hit>> \o results, MaxResults)
    ELSE results

\* The last resort when nothing was collected.
FinalFallback(results, fb) ==
    IF results # <<>> THEN results
    ELSE IF ~fb.raises /\ fb.title # "" /\ HasHref(fb.href)
         THEN <<ResultItem(fb.title, Absolute(fb.href.v))>>
         ELSE <<>>

\* The plans run_goal gets from the planner, as their action kinds.
RunPlans == SeqsUpTo({"press", "extract"}, MaxRunSteps) \ {<<>>}

\* What execute_steps(page, [step]) and the wait that follows it may do:
\* return (with the capture of an extract), or raise.
NoCapture == [text |-> "", href |-> NoHref]
StepAnswers(kind) ==
    {[raised |-> r, capture |-> NoCapture] : r \in {"PWTimeout", "Exception"}}
    \cup IF kind = "extract"
         THEN {[raised |-> "none", capture |-> [text |-> t, href |-> ExtractHref(a)]] :
                  t \in Titles, a \in HrefAnswers}
         ELSE {[raised |-> "none", capture |-> NoCapture]}

\* first_hit after a step: set when the capture has a text and an href.
FirstHit(hit, capture) ==
    IF capture.text # "" /\ HasHref(capture.href)
    THEN ResultItem(capture.text, Absolute(capture.href.v))
    ELSE hit

\* An entry of r_log.
StepEvent(i, raised) == [op |-> "step", idx |-> i, outcome |-> raised, items |-> <<>>]
ScrapeEvent(items) == [op |-> "scrape", idx |-> 0, outcome |-> "none", items |-> items]

RunInit ==
    /\ r_pc = "launch"
    /\ r_browser = "none"
    /\ r_plan = <<>>
    /\ r_i = 1
    /\ r_hit = NoHit
    /\ r_results = <<>>
    /\ r_log = <<>>
    /\ r_failed = {}
    /\ r_exit = "none"

\* An exception that leaves run_goal.
Propagate(stage) ==
    /\ r_failed' = r_failed \cup {stage}
    /\ r_exit' = "raised"
    /\ r_pc' = "done"

\* An exception taken by the except clauses of the outer try: results = [].
Handled(stage) ==
    /\ r_failed' = r_failed \cup {stage}
    /\ r_results' = <<>>
    /\ r_pc' = "finally"

\* p.chromium.launch(headless=True), before the try.
RunLaunch ==
    /\ r_pc = "launch"
    /\ \E ok \in BOOLEAN :
         IF ok
         THEN r_browser' = "open" /\ r_pc' = "new_page" /\ UNCHANGED <<r_failed, r_exit>>
         ELSE Propagate("launch") /\ UNCHANGED r_browser
    /\ UNCHANGED <<r_plan, r_i, r_hit, r_results, r_log>>
    /\ UNCHANGED <<pvars, evars, bvars, tvars, gvars, vvars, kvars, jvars>>

\* browser.new_page(), before the try: an exception leaves run_goal
\* without browser.close(); the exit of "with sync_playwright()" stops the
\* driver.
RunNewPage ==
    /\ r_pc = "new_page"
    /\ \E ok \in BOOLEAN :
         IF ok
         THEN r_pc' = "goto" /\ UNCHANGED <<r_browser, r_failed, r_exit>>
         ELSE Propagate("new_page") /\ r_browser' = "stopped"
    /\ UNCHANGED <<r_plan, r_i, r_hit, r_results, r_log>>
    /\ UNCHANGED <<pvars, evars, bvars, tvars, gvars, vvars, kvars, jvars>>

\* The stages of the try that are not guarded on their own: page.goto of
\* the portal and build_page_context.
RunStage(at, next) ==
    /\ r_pc = at
    /\ \E ok \in BOOLEAN :
         IF ok
         THEN r_pc' = next /\ UNCHANGED <<r_results, r_failed>>
         ELSE Handled(at)
    /\ UNCHANGED <<r_browser, r_plan, r_i, r_hit, r_log, r_exit>>
    /\ UNCHANGED <<pvars, evars, bvars, tvars, gvars, vvars, kvars, jvars>>

RunGoto == RunStage("goto", "context")
RunContext == RunStage("context", "plan")

\* The keyword extraction, the plan and its debug copy.
RunPlan ==
    /\ r_pc = "plan"
    /\ \/ \E plan \in RunPlans :
            /\ r_plan' = plan
            /\ r_pc' = "exec"
            /\ UNCHANGED <<r_results, r_failed>>
       \/ Handled("plan") /\ UNCHANGED r_plan
    /\ UNCHANGED <<r_browser, r_i, r_hit, r_log, r_exit>>
    /\ UNCHANGED <<pvars, evars, bvars, tvars, gvars, vvars, kvars, jvars>>

\* A step loop that a timeout of a step leaves.
AfterStep_TimeoutFatal(i, n, raised) ==
    IF raised = "PWTimeout" THEN "finally"
    ELSE IF i = n THEN "browse" ELSE "exec"

\* Where run_goal goes after pass i of the loop over the n steps, whatever
\* the step raised.
AfterStep(i, n, raised) == IF i = n THEN "browse" ELSE "exec"

\* One pass of the loop over the steps: execute_steps(page, [step]), the
\* capture of an extract kept as first_hit, the wait after a press, click
\* or goto; a PWTimeout or another Exception is printed and the loop goes
\* on.
RunStep ==
    /\ r_pc = "exec"
    /\ r_i <= Len(r_plan)
    /\ \E a \in StepAnswers(r_plan[r_i]) :
         /\ r_hit' = FirstHit(r_hit, a.capture)
         /\ r_failed' = IF a.raised # "none" THEN r_failed \cup {"exec"} ELSE r_failed
         /\ r_log' = Append(r_log, StepEvent(r_i, a.raised))
         /\ r_pc' = AfterStep(r_i, Len(r_plan), a.raised)
    /\ r_i' = r_i + 1
    /\ UNCHANGED <<r_browser, r_plan, r_results, r_exit>>
    /\ UNCHANGED <<pvars, evars, bvars, tvars, gvars, vvars, kvars, jvars>>

\* Step 5: page.goto of the result page when the page is not on it.
RunBrowse ==
    /\ r_pc = "browse"
    /\ \E on_results \in BOOLEAN, ok \in BOOLEAN :
         IF on_results \/ ok
         THEN r_pc' = "scrape" /\ UNCHANGED <<r_results, r_failed>>
         ELSE Handled("browse")
    /\ UNCHANGED <<r_browser, r_plan, r_i, r_hit, r_log, r_exit>>
    /\ UNCHANGED <<pvars, evars, bvars, tvars, gvars, vvars, kvars, jvars>>

\* The wait for the first anchor, the anchors, one item per readable
\* anchor, first_hit, the last resort: every driver call is guarded.
RunScrape ==
    /\ r_pc = "scrape"
    /\ \E wait_ok \in BOOLEAN, a \in AnchorAnswers :
       \E fb \in FirstResultAnswers(Prepend(r_hit, Collect(Take(a.anchors, MaxResults)))) :
         LET collected == Collect(Take(a.anchors, MaxResults))
             merged == Prepend(r_hit, collected)
             threw == \/ ~wait_ok
                      \/ a.raises
                      \/ \E i \in DOMAIN a.anchors : a.anchors[i].raises
                      \/ (merged = <<>> /\ fb.raises)
         IN  /\ r_results' = FinalFallback(merged, fb)
             /\ r_log' = Append(r_log, ScrapeEvent(collected))
             /\ r_failed' = IF threw THEN r_failed \cup {"scrape"} ELSE r_failed
    /\ r_pc' = "finally"
    /\ UNCHANGED <<r_browser, r_plan, r_i, r_hit, r_exit>>
    /\ UNCHANGED <<pvars, evars, bvars, tvars, gvars, vvars, kvars, jvars>>

\* finally: browser.close(), then "return results"; an exception of
\* close() leaves run_goal.
RunFinally ==
    /\ r_pc = "finally"
    /\ \E ok \in BOOLEAN :
         IF ok
         THEN /\ r_browser' = "closed"
              /\ r_exit' = "returned"
              /\ r_pc' = "done"
              /\ UNCHANGED r_failed
         ELSE Propagate("close") /\ r_browser' = "stopped"
    /\ UNCHANGED <<r_plan, r_i, r_hit, r_results, r_log>>
    /\ UNCHANGED <<pvars, evars, bvars, tvars, gvars, vvars, kvars, jvars>>

RunNext ==
    \/ RunLaunch \/ RunNewPage \/ RunGoto \/ RunContext \/ RunPlan
    \/ RunStep \/ RunBrowse \/ RunScrape \/ RunFinally

(***************************************************************************)
(* _extract_search_text (agent_cli.py).  A goal text is a sequence of      *)
(* segments separated by single spaces: a word, or a phrase of words in    *)
(* quotes.  The words are letters only and none of them goes on after the  *)
(* end of a filler pattern, so the patterns match whole words.             *)
(***************************************************************************)
MaxGoalLen == 4

Word(w) == [q |-> FALSE, words |-> <<w>>]
Phrase(ws) == [q |-> TRUE, words |-> ws]

Segments ==
    {Word("the"), Word("ab"), Word("la"), Word("crimes"), Word("Crimes"), Word("parks"),
     Phrase(<<"Department", "of", "Water">>), Phrase(<<"the", "data">>)}

\* How a goal may begin.
LeadIns ==
    {<<>>,
     <<Word("I"), Word("want"), Word("to"), Word("know"), Word("about")>>,
     <<Word("show"), Word("me")>>,
     <<Word("please"), Word("show"), Word("me")>>}

KeywordGoals == {lead \o rest : lead \in LeadIns, rest \in SeqsUpTo(Segments, MaxGoalLen)}

\* str.lower() on a word.
LowerWord(w) ==
    CASE w = "I" -> "i"
      [] w = "LA" -> "la"
      [] w = "Crimes" -> "crimes"
      [] w = "Department" -> "department"
      [] w = "Water" -> "water"
      [] OTHER -> w

\* str.lower() on a word or phrase.
LowerUnit(u) == [i \in DOMAIN u |-> LowerWord(u[i])]

STOP ==
    {"the", "a", "an", "and", "or", "of", "on", "in", "for", "to", "from", "with", "about",
     "at", "by", "into", "is", "are", "was", "were", "be", "been", "being", "that", "this",
     "these", "those", "it", "its", "as", "i", "we", "you", "they", "he", "she", "them", "me",
     "my", "our", "your", "their", "want", "would", "like", "know", "find", "search", "see",
     "please", "dataset", "datasets", "data"}

\* The short tokens that are kept, lower-cased.
ShortKept == {"la", "pd", "dpw"}

\* The captures of re.findall for the quoted phrases, in order.
RECURSIVE phrase_tokens(_)
phrase_tokens(goal) ==
    IF goal = <<>> THEN <<>>
    ELSE IF Head(goal).q THEN <<Head(goal).words>> \o phrase_tokens(Tail(goal))
    ELSE phrase_tokens(Tail(goal))

\* The text with the quote characters removed, as its words.
RECURSIVE Unquoted(_)
Unquoted(goal) ==
    IF goal = <<>> THEN <<>> ELSE Head(goal).words \o Unquoted(Tail(goal))

\* The number of words the leading-filler pattern matches at the start of
\* the text, 0 when it does not match.
FillerLen(ws) ==
    LET l(i) == IF i <= Len(ws) THEN LowerWord(ws[i]) ELSE ""
        purpose(n) == IF l(n + 1) = "to" /\ l(n + 2) \in {"know", "see", "find", "search"}
                      THEN n + 2 ELSE n
        head == CASE l(1) = "i" /\ l(2) \in {"want", "need"} -> purpose(2)
                  [] l(1) = "i" /\ l(2) = "would" /\ l(3) = "like" -> purpose(3)
                  [] l(1) = "tell" /\ l(2) = "me" -> 2
                  [] l(1) = "show" /\ l(2) = "me" -> 2
                  [] l(1) = "can" /\ l(2) = "you" /\ l(3) \in {"find", "show"} -> 3
                  [] OTHER -> 0
    IN  IF head = 0 THEN 0
        ELSE IF l(head + 1) \in {"about", "for"} THEN head + 1 ELSE head

\* re.sub of the leading filler.
StripFiller(ws) == SubSeq(ws, FillerLen(ws) + 1, Len(ws))

\* A filter that keeps short tokens.
Kept_AnyLength(t) == LowerWord(t) \notin STOP

\* The filter on the tokens: no stopword, no short token but the listed.
Kept(t) ==
    /\ LowerWord(t) \notin STOP
    /\ ~(Len(t) <= 2 /\ LowerWord(t) \notin ShortKept)

\* "cleaned" before the phrases are put back: the tokens kept, each a unit.
RECURSIVE Cleaned(_)
Cleaned(ws) ==
    IF ws = <<>> THEN <<>>
    ELSE IF Kept(Head(ws)) THEN <<<<Head(ws)>>>> \o Cleaned(Tail(ws))
    ELSE Cleaned(Tail(ws))

\* The units without those whose lower-case form was seen before.
RECURSIVE Dedupe(_, _)
Dedupe(units, seen) ==
    IF units = <<>> THEN <<>>
    ELSE IF LowerUnit(Head(units)) \in seen THEN Dedupe(Tail(units), seen)
    ELSE <<Head(units)>> \o Dedupe(Tail(units), seen \cup {LowerUnit(Head(units))})

\* The cut of "deduped".
MaxKeywords == 5

\* "la" in any case becomes "LA".
NormalizeLA(units) ==
    [i \in DOMAIN units |-> IF LowerUnit(units[i]) = <<"la">> THEN <<"LA">> ELSE units[i]]

\* " ".join(deduped): the words of the string.
RECURSIVE JoinUnits(_)
JoinUnits(units) == IF units = <<>> THEN <<>> ELSE Head(units) \o JoinUnits(Tail(units))

\* _extract_search_text(goal): the list that is joined, and the string.
_extract_search_text(goal) ==
    IF goal = <<>> THEN [units |-> <<>>, out |-> <<>>]
    ELSE LET cleaned == Cleaned(StripFiller(Unquoted(goal))) \o phrase_tokens(goal)
             deduped == NormalizeLA(Take(Dedupe(cleaned, {}), MaxKeywords))
         IN  [units |-> deduped, out |-> JoinUnits(deduped)]

KeywordsInit ==
    /\ k_pc = "ready"
    /\ k_goal \in KeywordGoals
    /\ k_units = <<>>
    /\ k_out = <<>>

Keywordize ==
    /\ k_pc = "ready"
    /\ LET r == _extract_search_text(k_goal) IN
       /\ k_units' = r.units
       /\ k_out' = r.out
    /\ k_pc' = "done"
    /\ UNCHANGED k_goal
    /\ UNCHANGED <<pvars, evars, bvars, tvars, gvars, vvars, rvars, jvars>>

KeywordsNext == Keywordize

RunIdle ==
    /\ r_pc = "idle" /\ r_browser = "none" /\ r_plan = <<>> /\ r_i = 1 /\ r_hit = NoHit
    /\ r_results = <<>> /\ r_log = <<>> /\ r_failed = {} /\ r_exit = "none"

KeywordsIdle == k_pc = "idle" /\ k_goal = <<>> /\ k_units = <<>> /\ k_out = <<>>

\* One response put through the loop body of _try_gemini_plan.
ParseInit ==
    /\ j_pc = "ready"
    /\ j_text \in Texts
    /\ j_out = None

ParseIdle == j_pc = "idle" /\ j_text = <<>> /\ j_out = None

\* The loop body for a response with the text j_text.
ParseResponse ==
    /\ j_pc = "ready"
    /\ j_out' = TryModelOutcome([exc |-> FALSE, text |-> j_text])
    /\ j_pc' = "done"
    /\ UNCHANGED j_text
    /\ UNCHANGED <<pvars, evars, bvars, tvars, gvars, vvars, rvars, kvars>>

ParseNext == ParseResponse

NewIdle == ValidateIdle /\ RunIdle /\ KeywordsIdle /\ ParseIdle

(***************************************************************************)
(* The specifications.                                                     *)
(***************************************************************************)
InitPlan == PlanInit /\ ExecIdle /\ CtxIdle /\ MatchIdle /\ ServerIdle /\ NewIdle
SpecPlan == InitPlan /\ [][PlanNext]_vars

InitExec == ExecInit /\ PlanIdle /\ CtxIdle /\ MatchIdle /\ ServerIdle /\ NewIdle
SpecExec == InitExec /\ [][ExecNext]_vars

InitCtx == CtxInit /\ PlanIdle /\ ExecIdle /\ MatchIdle /\ ServerIdle /\ NewIdle
SpecCtx == InitCtx /\ [][CtxNext]_vars

InitMatch == MatchInit /\ PlanIdle /\ ExecIdle /\ CtxIdle /\ ServerIdle /\ NewIdle
SpecMatch == InitMatch /\ [][MatchNext]_vars

InitServer == ServerInit /\ PlanIdle /\ ExecIdle /\ CtxIdle /\ MatchIdle /\ NewIdle
SpecServer == InitServer /\ [][ServerNext]_vars

InitValidate ==
    /\ ValidateInit /\ PlanIdle /\ ExecIdle /\ CtxIdle /\ MatchIdle /\ ServerIdle
    /\ RunIdle /\ KeywordsIdle /\ ParseIdle
SpecValidate == InitValidate /\ [][ValidateNext]_vars

InitRun ==
    /\ RunInit /\ PlanIdle /\ ExecIdle /\ CtxIdle /\ MatchIdle /\ ServerIdle
    /\ ValidateIdle /\ KeywordsIdle /\ ParseIdle
SpecRun == InitRun /\ [][RunNext]_vars

InitKeywords ==
    /\ KeywordsInit /\ PlanIdle /\ ExecIdle /\ CtxIdle /\ MatchIdle /\ ServerIdle
    /\ ValidateIdle /\ RunIdle /\ ParseIdle
SpecKeywords == InitKeywords /\ [][KeywordsNext]_vars

InitParse ==
    /\ ParseInit /\ PlanIdle /\ ExecIdle /\ CtxIdle /\ MatchIdle /\ ServerIdle
    /\ ValidateIdle /\ RunIdle /\ KeywordsIdle
SpecParse == InitParse /\ [][ParseNext]_vars

(***************************************************************************)
(* Properties of the plan generator (SpecPlan).                            *)
(***************************************************************************)

\* C1: whatever the backend did (no credentials, exceptions, empty,
\* unparsable, schema-invalid or extract-less responses, a valid plan), the
\* plan plan_actions_via_llm_mcp returns passes ACTION_SCHEMA and holds at
\* least one extract action.
C1_ReturnedPlanValidWithExtract ==
    p_pc = "done" => Validate(p_plan) /\ HasExtract(p_plan)

\* A generated plan was returned by the third identifier after one response
\* failed the schema and one lacked an extract.
C1_Witness ==
    /\ p_pc = "done"
    /\ p_tried # None
    /\ p_plan = p_tried.plan
    /\ p_trace = <<"schema", "no_extract", "accepted">>

(***************************************************************************)
(* Properties of the plan executor (SpecExec).                             *)
(***************************************************************************)
Entries == 1..Len(e_log)

\* A retried action whose attempts were all used up without success.
Exhausted(en) == en.action \in Retried /\ en.attempts = MaxAttempts(en.action) /\ en.raised # "none"

\* C2: a wait_for that times out on all 3 attempts makes execute_steps raise
\* a timeout, and no later action of the plan is executed.
C2_WaitForTimeoutPropagates ==
    \A k \in Entries :
        (e_log[k].action = "wait_for" /\ Exhausted(e_log[k]) /\ e_log[k].timeouts = 3)
        => /\ e_log[k].disp = "raised"
           /\ e_status = "raised"
           /\ e_exc = "PWTimeout"
           /\ k = Len(e_log)

\* A click that failed on both attempts with a non-timeout error.
ClickFailedTwice(en) == en.action = "click" /\ Exhausted(en) /\ en.timeouts = 0

\* C3: a click that fails on both attempts with a non-timeout error does not
\* make execute_steps raise; the loop goes on to the next action, and when
\* the call returns every later action was run and the capture of a
\* trailing extract is in the result.
C3_ClickSoftFailReachesExtract ==
    \A k \in Entries :
        ClickFailedTwice(e_log[k])
        => /\ e_log[k].disp = "soft"
           /\ e_i > k
           /\ e_status = "returned"
              => /\ Len(e_log) = Len(e_steps)
                 /\ \A j \in (k + 1)..Len(e_steps) : e_log[j].idx = j
                 /\ ActionOf(e_steps[Len(e_steps)]) = "extract"
                    => /\ e_log[Len(e_steps)].disp = "extracted"
                       /\ e_result # None

\* The plan [click, extract] was run to its end: the click failed twice with
\* a non-timeout error and the extract's capture is returned.
C3_Witness ==
    /\ e_status = "returned"
    /\ Len(e_log) = 2
    /\ ClickFailedTwice(e_log[1])
    /\ e_log[2].disp = "extracted"
    /\ e_result # None

LastEntry == e_log[Len(e_log)]

\* C4: execute_steps stops before the end of the plan only when a timeout
\* propagates from a goto or wait_for action; an error of any kind raised by
\* fill, click, press, scroll, sleep, assert_text or extract is caught and
\* the loop advances to the next action.  It does not hold: a timeout of
\* press or assert_text is raised again by the try/except, extract is run
\* outside the try/except, and an exception of the wait for the load state
\* that is no timeout leaves execute_steps.
C4_OnlyGotoWaitForTimeoutsAbort ==
    /\ e_status = "raised"
       => LastEntry.action \in {"goto", "wait_for"} /\ e_exc = "PWTimeout"
    /\ \A k \in Entries :
         (/\ e_log[k].action \in {"fill", "click", "press", "scroll", "sleep",
                                  "assert_text", "extract"}
          /\ e_log[k].raised # "none")
         => e_log[k].disp = "soft" /\ e_i > k

\* C5: a fill or click whose attempts are used up is passed over when the
\* failures were non-timeout errors, and propagates the timeout out of
\* execute_steps when the failures were timeouts.
C5_FillClickExhausted ==
    \A k \in Entries :
        (e_log[k].action \in {"fill", "click"} /\ Exhausted(e_log[k]))
        => /\ e_log[k].timeouts = 0 => e_log[k].disp = "soft" /\ e_i > k
           /\ e_log[k].timeouts = e_log[k].attempts
              => e_log[k].disp = "raised" /\ e_status = "raised" /\ e_exc = "PWTimeout"

(***************************************************************************)
(* Properties of the page context builder and its bridge session (SpecCtx).*)
(***************************************************************************)
Requested(op) == \E i \in 1..Len(s_calls) : s_calls[i].op = op

\* C6: however the session ended on the worker thread (a result, or an
\* exception of any kind), the caller of _run_anyio_in_thread is not left
\* waiting on the handoff queue once the worker thread has ended: an item is
\* there for it to take.
C6_CallerNotLeftBlocked ==
    (w_pc = "exited" /\ c_pc = "get") => q # <<>>

\* C7: when control has left the bridge session (normally, by an exception
\* in the body, or by a failure of the handshake or of tool discovery after
\* the transport was started), the transport that open started is released.
C7_TransportReleasedOnExit ==
    (w_pc \in {"finish", "exited"} /\ w_exc \in {"none", "Exception"})
    => s_transport # "open"

\* The remote path gave a normalized context with no elements.
RemoteEmpty == w_res # None /\ w_res.elements = <<>>

\* C8: build_page_context never raises, whatever fails on the remote path or
\* in a local probe, and returns a context tagged local when the remote
\* path gave zero elements.
C8_NeverRaises ==
    /\ c_pc # "raised"
    /\ (c_pc = "returned" /\ RemoteEmpty) => c_ctx.source = "local"

\* The snapshot tool answered with a dict that holds at least one element.
SnapshotWellFormed ==
    /\ s_snap # None
    /\ s_snap.t = "dict"
    /\ s_snap.elements # NoKey
    /\ s_snap.elements.v # <<>>

\* C9: the returned context is tagged "mcp" exactly when a launch command
\* was configured and the snapshot answer was a dict with at least one
\* element, and then no local probe was run; otherwise it is tagged "local"
\* and holds nothing of a remote result; with the launch command unset no
\* thread is started and no session is opened.
C9_SourceTag ==
    /\ c_pc = "returned"
       => /\ c_ctx.source = "mcp" <=> (Configured(c_cmd) /\ SnapshotWellFormed)
          /\ c_ctx.source = "mcp"
             => c_local = <<>> /\ c_ctx.elements = s_snap.elements.v
          /\ c_ctx.source # "mcp"
             => /\ c_ctx.source = "local"
                /\ c_local = <<"ax", "testids", "search", "submit">>
                /\ c_ctx.url = PageUrl
                /\ \E ax \in AxAnswers, ids \in TestIdAnswers, se \in CountAnswers, su \in CountAnswers :
                      se.kind = "count" /\ su.kind = "count" /\ c_ctx = LocalContext(ax, ids, se, su)
    /\ ~Configured(c_cmd)
       => w_pc = "none" /\ s_transport = "none" /\ s_calls = <<>>

\* A context tagged "mcp" was returned from a session whose navigate failed.
C9_Witness ==
    /\ c_pc = "returned"
    /\ c_ctx.source = "mcp"
    /\ s_nav = "raised"
    /\ Len(c_ctx.elements) = 2

\* C10: get_page_context is only requested after navigate, and once
\* navigate has ended, with True, with False or with an exception, the
\* session is about to request the snapshot or has requested it.
C10_SnapshotAfterAnyNavigate ==
    /\ \A i \in 1..Len(s_calls) :
          s_calls[i].op = "get_page_context"
          => \E j \in 1..(i - 1) : s_calls[j].op = "navigate"
    /\ s_nav \in {"true", "false", "raised"}
       => w_pc = "snapshot" \/ Requested("get_page_context")

\* The navigate tool call raised, and the snapshot was requested and gave a
\* context.
C10_Witness ==
    /\ s_nav = "raised"
    /\ Requested("get_page_context")
    /\ w_res # None

(***************************************************************************)
(* Properties of the plan generator (SpecPlan), continued.                 *)
(***************************************************************************)
\* The reasons for which a response is malformed or incomplete.
Malformed == {"empty", "no_brackets", "bad_json", "schema", "no_extract"}

ActionsOf(plan) == [i \in 1..Len(plan) |-> ActionOf(plan[i])]

\* C11: when each of the three identifiers answered with a malformed or
\* incomplete response (empty, no brackets, invalid JSON, schema-invalid, or
\* valid without extract), plan_actions_via_llm_mcp returns the fixed plan
\* wait_for, fill(goal), press Enter, wait_for, extract with meta source
\* "fallback" and model null.
C11_AllMalformedGivesFallback ==
    (/\ p_pc = "done"
     /\ Len(p_trace) = Len(MODEL_CANDIDATES)
     /\ \A k \in 1..Len(p_trace) : p_trace[k] \in Malformed)
    => /\ ActionsOf(p_plan) = <<"wait_for", "fill", "press", "wait_for", "extract">>
       /\ Get(p_plan[2], "value") = Str(p_goal)
       /\ Get(p_plan[3], "value") = Str("Enter")
       /\ Get(p_plan[5], "selector") = Str(ResultLinks)
       /\ p_meta = [source |-> "fallback", model |-> "null"]

\* The three identifiers answered: schema-valid without extract, invalid
\* JSON, no brackets; the fallback was returned.
C11_Witness ==
    /\ p_pc = "done"
    /\ p_trace = <<"no_extract", "bad_json", "no_brackets">>
    /\ Len(p_plan) = 5
    /\ p_meta.source = "fallback"

\* C12: plan_actions_via_llm_mcp never raises and always comes to its
\* return: while it has not returned a next step exists, and what it returns
\* is a pair of a non-empty plan and a meta with a source and a model.
C12_AlwaysReturnsPair ==
    /\ p_pc # "raised"
    /\ p_pc \in {"start", "loop", "final"} => ENABLED PlanNext
    /\ p_pc = "done" => /\ Len(p_plan) >= 1
                        /\ p_meta # None
                        /\ p_meta.source \in {"gemini", "fallback"}
                        /\ p_meta.model \in {"null"} \cup {MODEL_CANDIDATES[k] : k \in 1..3}

\* The backend raised for every identifier and a pair was returned.
C12_Witness ==
    /\ p_pc = "done"
    /\ p_trace = <<"exception", "exception", "exception">>
    /\ Len(p_plan) >= 1
    /\ p_meta # None

\* The order in which the identifiers are listed in the source.
ListedOrder ==
    <<"models/gemini-2.5-flash", "models/gemini-2.5-flash-lite", "models/gemini-2.5-pro">>

\* The identifier of pass k answered with an acceptable response.
AcceptedAt(k) == k \in 1..Len(p_trace) /\ p_trace[k] = "accepted"

\* What C13 says of the returned pair, the source of a generated plan being
\* tagged src.
FirstAcceptedWins(src) ==
    p_pc = "done" =>
        /\ \A k \in 1..Len(p_trace) :
              AcceptedAt(k) =>
                /\ k = Len(p_trace)
                /\ \A j \in 1..(k - 1) : p_trace[j] # "accepted"
                /\ p_plan = json_loads(Coerce(Strip(p_text))).items
                /\ p_meta = [source |-> src, model |-> ListedOrder[k]]
        /\ (~\E k \in 1..Len(p_trace) : AcceptedAt(k)) => p_meta.source = "fallback"
        /\ p_meta.model = "null" <=> p_meta.source = "fallback"

\* C13 as stated: the identifiers are tried in list order, the plan of the
\* first one whose response parses, validates and has an extract is
\* returned, no later identifier is consulted, meta.model is that identifier
\* and meta.source is "generated"; model is null exactly for the fallback.
C13_FirstAcceptedWinsGenerated == FirstAcceptedWins("generated")

\* C13, amended: as stated, with meta.source "gemini" for a generated plan.
C13_FirstAcceptedWinsGemini == FirstAcceptedWins("gemini")

\* The first identifier was rejected, the second accepted and the third
\* never consulted.
C13_Witness ==
    /\ p_pc = "done"
    /\ Len(p_trace) = 2
    /\ p_trace[1] \in Malformed
    /\ p_trace[2] = "accepted"
    /\ p_meta = [source |-> "gemini", model |-> "models/gemini-2.5-flash-lite"]
    /\ HasExtract(p_plan)

(***************************************************************************)
(* Properties of tool-name resolution (SpecMatch).                         *)
(***************************************************************************)
\* Some discovered name starts with, or contains, some candidate, in lower
\* case.
SomeStartsWith ==
    \E i \in 1..Len(t_names), k \in 1..Len(t_cands) :
        StartsWith(LowerName(t_names[i]), LowerName(t_cands[k]))
SomeContains ==
    \E i \in 1..Len(t_names), k \in 1..Len(t_cands) :
        Contains(LowerName(t_names[i]), LowerName(t_cands[k]))
ResultStartsWith ==
    \E k \in 1..Len(t_cands) : StartsWith(LowerName(t_res), LowerName(t_cands[k]))

\* C14: when some tool name starts with some candidate the resolved name
\* starts with a candidate (a name that only contains a candidate is
\* returned only when no name starts with any candidate); the result is
\* null only when no name contains any candidate, and a result that is not
\* null is one of the discovered names in its original spelling.
C14_StartsWithPreferred ==
    t_pc = "done" =>
        /\ SomeStartsWith => (t_res # NoTool /\ ResultStartsWith)
        /\ t_res = NoTool => ~SomeContains
        /\ t_res # NoTool => \E i \in 1..Len(t_names) : t_names[i] = t_res

(***************************************************************************)
(* Properties of the bridge client inside the session (SpecCtx).           *)
(***************************************************************************)
\* Some discovered tool name contains one of the candidates, in lower case.
ToolMatches(cands) ==
    \E i \in 1..Len(s_tools), k \in 1..Len(cands) :
        Contains(LowerName(s_tools[i]), LowerName(cands[k]))

\* A tool was invoked for the client operation op.
Invoked(op) == \E i \in 1..Len(s_calls) : s_calls[i].op = op /\ s_calls[i].tool # NoTool

\* The tool call of navigate has ended, with an answer or an exception.
Answered == s_nav_ans # <<>>

\* C15: navigate returns False, with no tool invoked, exactly when no
\* discovered tool matches a navigate candidate; when a tool matches it is
\* invoked, and when that call returns, whatever it returned and an empty
\* response included, navigate returns True; when the call raises, navigate
\* ends with that exception and returns neither True nor False.  Navigate
\* ends in no other way, unless the call is cancelled or awaited for ever.
C15_NavigateResult ==
    /\ s_nav = "false"
       => (~ToolMatches(NavigateCandidates) /\ ~Invoked("navigate") /\ ~Answered)
    /\ (Requested("navigate") /\ ~ToolMatches(NavigateCandidates)) => s_nav = "false"
    /\ (Requested("navigate") /\ ToolMatches(NavigateCandidates)) => Invoked("navigate")
    /\ Answered
       => /\ Invoked("navigate")
          /\ s_nav_ans[1] \in ToolAnswers
          /\ ~s_nav_ans[1].raises => s_nav = "true"
          /\ s_nav_ans[1].raises => s_nav = "raised"
    /\ s_nav \in {"true", "raised"} => Answered
    /\ (Invoked("navigate") /\ w_pc \notin {"navigate", "nav_wait"})
       => \/ Answered
          \/ s_nav = "cancelled"
          \/ (w_pc = "hung" /\ s_nav = "none")

\* navigate found the tool "browser_Navigate" by its candidate "navigate",
\* the call raised, and the exception left navigate.
C15_Witness ==
    /\ s_nav = "raised"
    /\ Answered /\ s_nav_ans[1].raises
    /\ \E i \in 1..Len(s_calls) :
          s_calls[i] = Req("navigate", <<"browser", "_", "Navigate">>)

\* C16: whatever the snapshot tool responded, get_page_context does not
\* raise: it returns None when the response carries no data and else a
\* context with the elements of the response, a response text that is not
\* JSON included.
C16_SnapshotAlwaysNormalized ==
    (w_pc = "closing" /\ s_snap # None)
    => /\ w_exc # "Exception"
       /\ IF TruthyValue(s_snap)
          THEN w_res # None /\ w_res.t = "ctx"
          ELSE w_res = None

(***************************************************************************)
(* Properties of the tool server (SpecServer).                             *)
(***************************************************************************)
\* C17: whatever the sequence and interleaving of tool calls, Playwright is
\* started and a browser launched at most once.
C17_SessionStartedAtMostOnce ==
    g_playwright <= 1 /\ g_launched <= 1

InProgress == Cardinality({t \in Tasks : g_task[t].pc # "idle"})

\* C18: the server advertises exactly the four tools; a call that threw (a
\* failing tool, a missing argument, a name that is not advertised) is
\* answered with one {error, trace} payload, no exception leaves call_tool,
\* and the server goes on to take up later calls.
C18_ErrorsAnsweredAsPayload ==
    /\ list_tools = {"playwright_navigate", "playwright_snapshot",
                     "playwright_click", "playwright_fill"}
    /\ ~g_crashed
    /\ g_sent + InProgress = g_calls
    /\ g_reply # None =>
          /\ g_reply.tool \notin list_tools => g_reply.threw = "ValueError"
          /\ g_reply.args = "missing" => g_reply.threw # "none"
          /\ g_reply.threw # "none" => /\ g_reply.payload.kind = "error"
                                       /\ g_reply.payload.keys = {"error", "trace"}
          /\ g_reply.threw = "none" => g_reply.payload.kind = "result"
    /\ (g_calls < MaxCalls /\ InProgress < Cardinality(Tasks))
       => ENABLED (\E t \in Tasks : CallTool(t))

\* The second call, to a tool that is not advertised, was answered with an
\* error payload and the server is ready for a third.
C18_Witness ==
    /\ g_sent = 2
    /\ g_reply.tool = "playwright_close"
    /\ g_reply.payload = ErrorPayload("ValueError")
    /\ g_calls < MaxCalls
    /\ ENABLED (\E t \in Tasks : CallTool(t))

\* C19: the snapshot takes the accessibility walk only if the rich scan
\* threw and carries a warning exactly when it did; whenever an evaluation
\* in the page failed the answer still is a snapshot (url, title,
\* elements), not an error; the walk collects what the walk of the local
\* path of build_page_context collects.
C19_SnapshotDegradesWithWarning ==
    (g_reply # None /\ g_reply.driver.kind = "snapshot" /\ g_page = "set") =>
        LET d == g_reply.driver.d
            res == g_reply.payload
        IN  /\ (d.probe = "raises" \/ d.rich = "raises")
               => /\ res.kind = "result"
                  /\ {"url", "title", "elements"} \subseteq res.keys
            /\ res.kind = "result" =>
                  /\ res.result.path \in {"ax", "minimal"} => d.rich = "raises"
                  /\ res.result.warning <=> res.result.path \in {"ax", "minimal"}
                  /\ "warning" \in res.keys <=> res.result.warning
                  /\ (res.result.path = "ax" /\ d.ax.kind = "tree")
                     => res.result.elements = walk(d.ax.tree)

\* The rank of a driver call of fill in the order the claim gives.
Rank(step) ==
    CASE step = "scroll"             -> 0
      [] step = "click"              -> 1
      [] step = "select_all_meta"    -> 2
      [] step = "select_all_control" -> 3
      [] step = "backspace"          -> 4
      [] step = "type"               -> 5

Did(steps, step) == \E i \in 1..Len(steps) : steps[i] = step

\* C20: fill focuses the target, selects all, deletes and then types, in
\* this order; typing never starts before the delete step, and when the
\* select-all chords fail the delete and type steps are still made.
C20_FillOrder ==
    (g_reply # None /\ g_reply.driver.kind = "fill") =>
        LET d == g_reply.driver.d
            steps == g_reply.steps
        IN  /\ \A i, j \in 1..Len(steps) : i < j => Rank(steps[i]) < Rank(steps[j])
            /\ Did(steps, "type")
               => Did(steps, "click") /\ Did(steps, "select_all_meta") /\ Did(steps, "backspace")
            /\ Did(steps, "backspace") => Did(steps, "select_all_meta")
            /\ (Did(steps, "select_all_meta") /\ d.meta = "raises" /\ d.control = "raises")
               => /\ Did(steps, "backspace")
                  /\ d.backspace = "ok" => Did(steps, "type")
                  /\ (d.backspace = "ok" /\ d.type = "ok") => g_reply.threw = "none"

\* Both select-all chords failed, and the value was deleted and typed.
C20_Witness ==
    /\ g_reply # None
    /\ g_reply.driver.kind = "fill"
    /\ g_reply.driver.d.meta = "raises"
    /\ g_reply.driver.d.control = "raises"
    /\ g_reply.steps = <<"scroll", "click", "select_all_meta", "select_all_control",
                         "backspace", "type">>
    /\ g_reply.payload.kind = "result"

(***************************************************************************)
(* Properties of the plan executor (SpecExec), continued.                  *)
(***************************************************************************)
\* The passes of the loop follow the plan: pass k handled step k.
InPlanOrder ==
    /\ Len(e_log) <= Len(e_steps)
    /\ \A k \in Entries : e_log[k].idx = k /\ e_log[k].action = ActionOf(e_steps[k])
    /\ e_status = "running" => e_i = Len(e_log) + 1
    /\ e_status = "returned" => Len(e_log) = Len(e_steps)
    /\ e_status = "raised" => e_i = Len(e_log)

\* C25: execute_steps handles the actions of the plan strictly in list
\* order, each once and the next only after the one before is finished,
\* and the plan handed in is never changed.
C25_InOrderPlanUnchanged ==
    [](InPlanOrder) /\ [][e_steps' = e_steps]_vars

\* A plan of two steps was run to its end, the first step soft-failed.
C25_Witness ==
    /\ e_status = "returned"
    /\ Len(e_log) = 2
    /\ e_log[1].disp = "soft"
    /\ e_log[2].idx = 2

\* C26: after a goto or click that did not propagate an error, soft-failed
\* ones included, the load state is waited for before the next action and
\* a timeout of the wait is passed over; no other action is followed by
\* the wait.
C26_SettleAfterGotoClick ==
    \A k \in Entries :
        LET en == e_log[k] IN
        /\ (en.action \in {"goto", "click"} /\ en.disp \in {"ok", "soft"})
           => /\ en.settle \in SettleAnswers
              /\ en.settle \in {"ok", "timeout"} => e_i > k
              /\ e_i = k => (e_status = "raised" /\ k = Len(e_log))
        /\ en.action \notin {"goto", "click"} => en.settle = "none"
        /\ en.disp = "raised" => en.settle = "none"
        /\ en.settle = "timeout" => (en.disp # "raised" /\ e_i > k)

\* A click failed on both attempts, the wait after it timed out and the
\* next action was run.
C26_Witness ==
    /\ Len(e_log) = 2
    /\ e_log[1].action = "click"
    /\ e_log[1].disp = "soft"
    /\ e_log[1].settle = "timeout"
    /\ e_log[2].disp = "ok"

\* C27: a step whose action has no handler (hover, select_option, no
\* action at all) is passed over with no driver call and no error, and the
\* steps after it are still run.
C27_UnhandledActionSkipped ==
    /\ \A k \in Entries :
          e_log[k].action \in {"hover", "select_option", "null"}
          => /\ e_log[k].disp = "skipped"
             /\ e_log[k].attempts = 0
             /\ e_log[k].raised = "none"
             /\ e_i > k
    /\ (e_status = "raised" /\ e_log # <<>>)
       => e_log[Len(e_log)].action \notin {"hover", "select_option", "null"}

\* A select_option step was passed over and the click after it was run.
C27_Witness ==
    /\ e_status = "returned"
    /\ Len(e_log) = 2
    /\ e_log[1].action = "select_option"
    /\ e_log[1].disp = "skipped"
    /\ e_log[2].action = "click"
    /\ e_log[2].attempts >= 1

\* C28: an extract that returned stores the text and the href of its
\* target: a relative href with the base URL in front, an absolute one as
\* it is, and no href when the attribute is missing or reading it failed.
C28_ExtractStoresTextHref ==
    (e_log # <<>> /\ e_log[Len(e_log)].disp = "extracted") =>
        LET a == e_log[Len(e_log)].read IN
        /\ e_result # None
        /\ e_result.text = "Crime Data"
        /\ (a.kind = "value" /\ a.href # <<>> /\ a.href[1] \notin {"http:", "https:"})
           => e_result.href = HrefVal(<<"https:", "//data.lacity.org">> \o a.href)
        /\ (a.kind = "value" /\ a.href # <<>> /\ a.href[1] \in {"http:", "https:"})
           => e_result.href = HrefVal(a.href)
        /\ a.kind \in {"none", "raises"} => e_result.href = NoHref

\* The href "/d/abc" was read and stored with the base in front.
C28_Witness ==
    /\ e_log # <<>>
    /\ e_log[Len(e_log)].disp = "extracted"
    /\ e_log[Len(e_log)].read = [kind |-> "value", href |-> <<"/d/abc">>]
    /\ e_result.href = HrefVal(<<"https:", "//data.lacity.org", "/d/abc">>)

\* C30: wait_for is attempted at most 3 times, fill and click at most 2
\* times, up to the first success, and exactly that often when every
\* attempt fails; goto, press, scroll, sleep, assert_text and extract are
\* attempted once; a timeout of goto leaves execute_steps and no later
\* action is run.
C30_AttemptCounts ==
    \A k \in Entries :
        LET en == e_log[k]
            max == CASE en.action = "wait_for" -> 3
                     [] en.action \in {"fill", "click"} -> 2
                     [] OTHER -> 1
        IN
        en.action \in {"wait_for", "fill", "click", "goto", "press", "scroll", "sleep",
                        "assert_text", "extract"}
        => /\ en.attempts >= 1 /\ en.attempts <= max
           /\ en.raised # "none" => en.attempts = max
           /\ en.raised = "none" => en.timeouts < en.attempts
           /\ (en.action = "goto" /\ en.timeouts = 1)
              => /\ en.disp = "raised"
                 /\ e_status = "raised"
                 /\ e_exc = "PWTimeout"
                 /\ k = Len(e_log)

\* A wait_for succeeded at its third attempt after two timeouts.
C30_Witness ==
    \E k \in Entries :
        /\ e_log[k].action = "wait_for"
        /\ e_log[k].attempts = 3
        /\ e_log[k].timeouts = 2
        /\ e_log[k].raised = "none"

(***************************************************************************)
(* Properties of the bridge client session (SpecCtx), continued.           *)
(***************************************************************************)
\* The positions of the requests for op in the log of the session.
RequestsFor(op) == {k \in DOMAIN s_calls : s_calls[k].op = op}

\* The tools were listed once, after the handshake, before request k.
DiscoveredBefore(k) ==
    \E d \in RequestsFor("list_tools") :
        /\ d < k
        /\ \E i \in RequestsFor("initialize") : i < d

DiscoveredOnce ==
    /\ Cardinality(RequestsFor("list_tools")) <= 1
    /\ \A k \in RequestsFor("navigate") \cup RequestsFor("get_page_context") :
          DiscoveredBefore(k)
    /\ w_pc \in {"navigate", "nav_wait", "snapshot", "snap_wait", "closing"}
       => Cardinality(RequestsFor("list_tools")) = 1
    /\ w_pc \in {"none", "boot", "transport", "handshake", "discover"} => s_tools = <<>>

\* C29: in a session of the bridge client the tools are listed exactly
\* once, in the open after the handshake; navigate, get_page_context, call
\* and the resolution of a tool name never change the set, and no tool is
\* called before the listing has ended.
C29_ToolsDiscoveredOnce ==
    [](DiscoveredOnce) /\ [][s_tools' # s_tools => w_pc = "discover"]_vars

\* Both tools were resolved against a discovered set of two tools and
\* called, and the session was closed.
C29_Witness ==
    /\ w_pc = "exited"
    /\ Len(s_tools) = 2
    /\ Len(s_calls) = 5
    /\ s_calls[4].op = "navigate" /\ s_calls[4].tool # NoTool
    /\ s_calls[5].op = "get_page_context" /\ s_calls[5].tool # NoTool

(***************************************************************************)
(* Properties of schema validation (SpecValidate).                         *)
(***************************************************************************)
\* An array item is an object with an action string of the closed set and
\* with the known fields, where present, of their types.
WellTypedStep(it) ==
    /\ it.t = "object"
    /\ it.f["action"] \in
          {Str(a) : a \in {"goto", "fill", "click", "press", "wait_for", "extract",
                           "assert_text", "select_option", "scroll", "sleep"}}
    /\ \A k \in {"url", "selector", "role", "name", "value", "assert"} :
          it.f[k] = Absent \/ it.f[k].t = "string"
    /\ it.f["timeout_ms"] = Absent \/ it.f["timeout_ms"].t = "number"

\* C24: the validator accepts a document if and only if it is an array of
\* objects that each carry an action string of the closed set with the
\* known fields correctly typed; fields the schema does not know do not
\* matter, and a missing or unknown action is rejected.
C24_SchemaAcceptsExactly ==
    v_pc = "done" =>
        /\ v_ok = "accepted"
           <=> (v_doc.t = "array" /\ \A i \in DOMAIN v_doc.items : WellTypedStep(v_doc.items[i]))
        /\ (v_doc.t = "array" /\ \E i \in DOMAIN v_doc.items :
                v_doc.items[i].f["action"] \notin
                    {Str(a) : a \in {"goto", "fill", "click", "press", "wait_for", "extract",
                                     "assert_text", "select_option", "scroll", "sleep"}})
           => v_ok = "rejected"

\* A plan of two steps that both carry a field the schema does not know
\* was accepted.
C24_Witness ==
    /\ v_pc = "done"
    /\ v_ok = "accepted"
    /\ Len(v_doc.items) = 2
    /\ \A i \in 1..2 : v_doc.items[i].f["extra"] # Absent

(***************************************************************************)
(* Properties of run_goal (SpecRun).                                       *)
(***************************************************************************)
\* C21: run_goal never raises to its caller; a failure in any stage gives
\* the empty result list; the browser is closed on every way out.
C21_NeverRaisesEmptyOnFailure ==
    r_pc = "done" =>
        /\ r_exit = "returned"
        /\ r_failed # {} => r_results = <<>>
        /\ r_browser = "closed"

(***************************************************************************)
(* Properties of the keyword extraction (SpecKeywords).                    *)
(***************************************************************************)
\* The words of the stopword set and of the short-acronym allow-list.
Stopwords ==
    {"the", "a", "an", "and", "or", "of", "on", "in", "for", "to", "from", "with", "about",
     "at", "by", "into", "is", "are", "was", "were", "be", "been", "being", "that", "this",
     "these", "those", "it", "its", "as", "i", "we", "you", "they", "he", "she", "them", "me",
     "my", "our", "your", "their", "want", "would", "like", "know", "find", "search", "see",
     "please", "dataset", "datasets", "data"}
Acronyms == {"LA", "PD", "DPW"}

\* A token that is no stopword in any case and is longer than two
\* characters or an acronym of the allow-list.
Filtered(w) ==
    /\ LowerWord(w) \notin Stopwords
    /\ Len(w) > 2 \/ w \in Acronyms \/ w \in {"la", "pd", "dpw"}

\* The words of the filler phrases.
FillerWords ==
    {"i", "want", "would", "like", "need", "to", "know", "see", "find", "search",
     "tell", "me", "show", "can", "you", "about", "for"}

\* The goal has no quoted phrase and only words of the given set.
OnlyWordsOf(S) ==
    \A i \in DOMAIN k_goal : ~k_goal[i].q /\ LowerWord(k_goal[i].words[1]) \in S

\* The quoted phrases of the goal.
QuotedPhrases == {k_goal[i].words : i \in {j \in DOMAIN k_goal : k_goal[j].q}}

\* C22, as stated: the output has at most 5 tokens, none a stopword and
\* none of length <= 2 unless in the allow-list; a goal made only of filler
\* and stopwords gives the empty string.
C22_AtMostFiveFilteredTokens ==
    k_pc = "done" =>
        /\ Len(k_out) <= 5
        /\ \A i \in DOMAIN k_out : Filtered(k_out[i])
        /\ OnlyWordsOf(Stopwords \cup FillerWords) => k_out = <<>>

\* C22, amended: the output has at most 5 units, each a token or a quoted
\* phrase of the goal; every unit that is no quoted phrase is no stopword
\* and not of length <= 2 unless in the allow-list; a goal without quoted
\* phrases that is made only of stopwords, after at most one filler phrase
\* at its start, gives the empty string.
C22_AtMostFiveUnitsPhrasesUnfiltered ==
    k_pc = "done" =>
        /\ Len(k_units) <= 5
        /\ \A i \in DOMAIN k_units :
              \/ k_units[i] \in QuotedPhrases
              \/ Len(k_units[i]) = 1 /\ Filtered(k_units[i][1])
        /\ (\E lead \in {<<>>, <<"i", "want", "to", "know", "about">>, <<"show", "me">>} :
              \E n \in 0..Len(k_goal) :
                 /\ n = Len(lead)
                 /\ \A i \in DOMAIN k_goal : ~k_goal[i].q
                 /\ \A i \in 1..n : LowerWord(k_goal[i].words[1]) = lead[i]
                 /\ \A i \in (n + 1)..Len(k_goal) : LowerWord(k_goal[i].words[1]) \in Stopwords)
           => k_out = <<>>

\* Five units were returned, one of them the quoted phrase "the data".
C22_Witness ==
    /\ k_pc = "done"
    /\ Len(k_units) = 5
    /\ \E i \in DOMAIN k_units : k_units[i] = <<"the", "data">>
    /\ <<"the", "data">> \in QuotedPhrases

\* The words of u stand next to each other, in order, in the output.
InOutput(u) ==
    \E i \in 0..(Len(k_out) - Len(u)) : SubSeq(k_out, i + 1, i + Len(u)) = u

\* C23: every quoted phrase of the goal stands verbatim and in one piece
\* in the output, however many other words the goal has.
C23_QuotedPhrasesPreserved ==
    k_pc = "done" => \A u \in QuotedPhrases : InOutput(u)

(***************************************************************************)
(* Properties of the handling of one response (SpecParse).                 *)
(***************************************************************************)
\* The text is prose, an array of items, prose: either prose may be empty
\* but not both.
Surrounded(txt) ==
    \E i \in 1..Len(txt), j \in 1..Len(txt) :
        /\ i < j
        /\ i > 1 \/ j < Len(txt)
        /\ \A k \in 1..(i - 1) : txt[k] = "prose"
        /\ \A k \in (j + 1)..Len(txt) : txt[k] = "prose"
        /\ txt[i] = "[" /\ txt[j] = "]"
        /\ \A k \in (i + 1)..(j - 1) : txt[k] \in {"extract", "wait_for"}
        /\ \E k \in (i + 1)..(j - 1) : txt[k] = "extract"

\* C31: a response that holds a schema-valid plan array with an extract
\* step, with prose before it, after it or both, is cut to the outermost
\* brackets and accepted as the plan of that identifier.
C31_SurroundedArrayAccepted ==
    (j_pc = "done" /\ Surrounded(j_text)) => j_out.accepted

(***************************************************************************)
(* Properties of the page context builder (SpecCtx), continued.            *)
(***************************************************************************)
\* build_page_context has ended: it returned or an exception left it.
Ended == c_pc \in {"returned", "raised"}

\* C32: one call of build_page_context starts at most one worker thread
\* and one session; the worker puts exactly one item on the queue; the
\* caller takes it only after the worker has ended; nothing of the call
\* still runs once build_page_context has ended.
C32_OneWorkerOneItem ==
    /\ Cardinality(RequestsFor("spawn")) <= 1
    /\ Len(q) <= 1
    /\ (w_pc = "exited" /\ c_pc \in {"join", "get"}) => Len(q) = 1
    /\ c_pc \in {"local", "returned", "raised"} => w_pc \in {"none", "exited"}
    /\ Ended => q = <<>>

\* C33: when the started tool server never answers a request, the remote
\* attempt is given up and build_page_context goes on to return the local
\* context: the caller is never left with nothing that can happen.
C33_SilentServerAbandoned ==
    (w_pc = "hung" /\ ~Ended) => ENABLED CtxNext

\* The snapshot tool answered, and not with a dict that holds a non-empty
\* list of elements.
SnapshotUnusable == s_snap # None /\ ~SnapshotWellFormed

\* C35: after an answer of the snapshot tool that is an error payload or
\* has no non-empty list of elements, build_page_context returns no
\* context tagged "mcp": it returns the local context.
C35_UnusableSnapshotGivesLocal ==
    (SnapshotUnusable /\ Ended) => (c_pc = "returned" /\ c_ctx.source = "local")

\* C36, as stated: a context tagged "mcp" comes from a session whose
\* navigate succeeded, and its url is the URL of the caller.
C36_McpImpliesNavigated ==
    (c_pc = "returned" /\ c_ctx.source = "mcp")
    => (s_nav = "true" /\ c_ctx.url = PageUrl)

\* C36, amended: a context tagged "mcp" comes from a session that
\* requested navigate before the snapshot, whether navigate gave True,
\* False or an exception, and its url is the one the server answered, the
\* empty string when it answered none.
C36_McpAfterNavigateAttempt ==
    (c_pc = "returned" /\ c_ctx.source = "mcp")
    => /\ \E i \in RequestsFor("navigate"), j \in RequestsFor("get_page_context") : i < j
       /\ s_nav \in {"true", "false", "raised"}
       /\ s_snap.t = "dict"
       /\ c_ctx.url = (IF s_snap.url = NoKey THEN "" ELSE s_snap.url.v)

\* A context tagged "mcp" with the URL of another page was returned from a
\* session that found no navigate tool.
C36_Witness ==
    /\ c_pc = "returned"
    /\ c_ctx.source = "mcp"
    /\ s_nav = "false"
    /\ c_ctx.url = OtherUrl

(***************************************************************************)
(* Properties of the plan executor (SpecExec): the extracted field.        *)
(***************************************************************************)
\* The passes in which an extract returned.
Extracts == {k \in Entries : e_log[k].disp = "extracted"}

\* result["extracted"] is None exactly when no extract has returned, and
\* else the capture of the extract that returned last.
ExtractedIsLast ==
    /\ e_result = None <=> Extracts = {}
    /\ e_status = "returned"
       => (e_result = None <=> \A k \in Entries : e_log[k].action # "extract")
    /\ Extracts # {} =>
          LET last == CHOOSE k \in Extracts : \A j \in Extracts : j <= k
              read == e_log[last].read
          IN  /\ e_result.text = "Crime Data"
              /\ read.kind # "value" => e_result.href = NoHref
              /\ read.kind = "value"
                 => /\ e_result.href # NoHref
                    /\ LET h == e_result.href.v IN
                       /\ Len(h) >= Len(read.href)
                       /\ SubSeq(h, Len(h) - Len(read.href) + 1, Len(h)) = read.href

\* C34: the extracted field of the result of execute_steps is None if and
\* only if no extract was run in the call; after several extracts it holds
\* the capture of the last; no other action changes it.
C34_ExtractedFieldOfLastExtract ==
    /\ [](ExtractedIsLast)
    /\ [][e_result' # e_result => (InLoop /\ ActionOf(e_steps[e_i]) = "extract")]_vars

\* Two extracts returned, the first with an href and the second without,
\* and the field holds the capture without href.
C34_Witness ==
    /\ e_status = "returned"
    /\ Len(e_log) = 2
    /\ Extracts = {1, 2}
    /\ e_log[1].read.kind = "value"
    /\ e_log[2].read.kind = "none"
    /\ e_result # None
    /\ e_result.href = NoHref

(***************************************************************************)
(* Properties of the tool server (SpecServer), continued.                  *)
(***************************************************************************)
\* C37: in every reachable state of the server, a start that failed
\* part-way or is still going on in another call included, browser set
\* implies page set, and every tool call past start_browser works on a
\* page that is set.
C37_BrowserSetImpliesPage ==
    /\ g_browser = "set" => g_page = "set"
    /\ \A t \in Tasks : g_task[t].pc = "body" => g_page = "set"

(***************************************************************************)
(* Properties of run_goal (SpecRun), continued.                            *)
(***************************************************************************)
\* The stages whose exception ends the run before the step loop.
BeforeLoop == {"launch", "new_page", "goto", "context", "plan"}

\* The passes of the step loop and the scrapes made so far.
StepsDone == {k \in DOMAIN r_log : r_log[k].op = "step"}
ScrapesDone == {k \in DOMAIN r_log : r_log[k].op = "scrape"}

\* C38: every step of the plan is handed to execute_steps once and in plan
\* order; a timeout or another exception of a step is caught for that
\* step alone, and the later steps and the scrape of the result page are
\* still attempted.
C38_EveryStepOnceInOrder ==
    /\ \A k \in StepsDone : r_log[k].idx = k
    /\ \A k \in ScrapesDone : k = Len(r_plan) + 1 /\ k = Len(r_log)
    /\ r_pc = "exec" => (r_i <= Len(r_plan) /\ StepsDone = 1..(r_i - 1))
    /\ r_pc \in {"browse", "scrape"} => (StepsDone = 1..Len(r_plan) /\ ScrapesDone = {})
    /\ (r_pc \in {"finally", "done"} /\ r_failed \cap BeforeLoop = {}) =>
          /\ StepsDone = 1..Len(r_plan)
          /\ "browse" \notin r_failed => ScrapesDone = {Len(r_plan) + 1}

\* run_goal returned after a plan of two steps of which the first timed
\* out and the second raised another exception, and the scrape was made.
C38_Witness ==
    /\ r_exit = "returned"
    /\ Len(r_plan) = 2
    /\ Len(r_log) = 3
    /\ r_log[1].op = "step" /\ r_log[1].outcome = "PWTimeout"
    /\ r_log[2].op = "step" /\ r_log[2].outcome = "Exception"
    /\ r_log[3].op = "scrape"

\* The errors after which run_goal returns [] by its except clauses.
Fatal == {"goto", "context", "plan", "browse"}

\* The items the loop over the anchors collected.
Scraped == IF ScrapesDone = {} THEN <<>> ELSE r_log[Len(r_log)].items

\* C39: run_goal returns at most 10 items, each with a non-empty title and
\* a url that starts with http; when it completes without a fatal error
\* and an extract captured a hit whose url is not among the scraped
\* results, the hit is the first item returned.
C39_ResultsBoundedHitFirst ==
    r_exit = "returned" =>
      /\ Len(r_results) <= MaxResults
      /\ \A i \in DOMAIN r_results :
            r_results[i].title # "" /\ StartsWithHttp(r_results[i].url)
      /\ (/\ r_failed \cap Fatal = {}
          /\ r_hit # NoHit
          /\ \A i \in DOMAIN Scraped : Scraped[i].url # r_hit.url)
         => (r_results # <<>> /\ r_results[1] = r_hit)

\* Ten items were scraped and an extract captured a hit with another url:
\* ten items are returned, the hit first.
C39_Witness ==
    /\ r_exit = "returned"
    /\ r_failed \cap Fatal = {}
    /\ Len(Scraped) = MaxResults
    /\ r_hit # NoHit
    /\ \A i \in DOMAIN Scraped : Scraped[i].url # r_hit.url
    /\ Len(r_results) = MaxResults
    /\ r_results[1] = r_hit
    /\ r_results[2] = Scraped[1]

====
